---- MODULE Spec2Model ----
(***************************************************************************)
(* A model of the rule-evaluation service: the path resolver, the operator *)
(* catalogue, the condition tree and its evaluator, the in-memory rule     *)
(* repository (app/services/rule_engine.py), the category-indexed engine   *)
(* (rule_engine/core/engine.py) and the service operations on top of them. *)
(*                                                                         *)
(* Python strings that the code takes apart (paths, string values) are     *)
(* sequences of one-character strings; names that are only compared        *)
(* (entity types, rule names, categories, dictionary keys) are strings.    *)
(***************************************************************************)
EXTENDS Integers, Sequences, FiniteSets, TLC

VARIABLES
    rule_repository,   \* RuleEngine.rule_repository: the dict, as its items in insertion order
    rules_by_entity,   \* core RuleEngine.rules_by_entity: entity type -> {rules, categories}
    last,              \* the last request served and its response
    ev_rules,          \* evaluator harness: the rule dicts handed to RuleEvaluator.evaluate_data
    ev_data,           \* evaluator harness: the data document
    ev_results,        \* evaluator harness: the RuleResult list returned
    instance,          \* RuleEngine._instance (the class attribute), None or an instance id
    repos,             \* the repository of every RuleEngine instance ever constructed
    pc,                \* per request: where it is
    svc,               \* per request: the engine instance its RuleService holds
    req,               \* per request: the categories it upserts with
    made,              \* per request: the instance its get_instance call constructed
    hash_order         \* the order the hashes of this run give to the stored rules of a set

vars == <<rule_repository, rules_by_entity, last, ev_rules, ev_data,
          ev_results, instance, repos, pc, svc, req, made, hash_order>>

-----------------------------------------------------------------------------
(* Bounds of the model *)

MaxEntities == 2      \* entities in one data document
MaxEvalRules == 2     \* rules handed to the evaluator in one call

-----------------------------------------------------------------------------
(* JSON values: a tagged record; k is the Python type *)

None == [k |-> "null"]
Num(n) == [k |-> "num", v |-> n]
Bool(b) == [k |-> "bool", v |-> b]
Str(s) == [k |-> "str", v |-> s]      \* s: a sequence of characters
List(xs) == [k |-> "list", v |-> xs]  \* xs: a sequence of values
Dict(f) == [k |-> "dict", v |-> f]    \* f: a record, key -> value

\* What a Python call yields when it raises instead of returning.
Raise(msg) == [k |-> "raise", v |-> msg]

IsRaise(x) == "k" \in DOMAIN x /\ x.k = "raise"

\* int(x) of a bool or a number.
NumVal(a) == IF a.k = "bool" THEN (IF a.v THEN 1 ELSE 0) ELSE a.v

\* Python ==: True == 1; otherwise values of different types are unequal.
PyEq(a, b) ==
    IF a.k \in {"num", "bool"} /\ b.k \in {"num", "bool"}
    THEN NumVal(a) = NumVal(b)
    ELSE a.k = b.k /\ (a.k = "null" \/ a.v = b.v)

\* bool(x)
Truthy(a) ==
    CASE a.k = "null" -> FALSE
      [] a.k = "bool" -> a.v
      [] a.k = "num" -> a.v # 0
      [] a.k = "dict" -> DOMAIN a.v # {}
      [] OTHER -> a.v # <<>>

\* len(x) of a str, list or dict.
PyLen(a) == IF a.k = "dict" THEN Cardinality(DOMAIN a.v) ELSE Len(a.v)

RECURSIVE ToStr(_)
\* The characters of a sequence as one string (a dictionary key).
ToStr(s) == IF s = <<>> THEN "" ELSE Head(s) \o ToStr(Tail(s))

-----------------------------------------------------------------------------
(* str methods *)

StartsWith(s, p) == Len(s) >= Len(p) /\ SubSeq(s, 1, Len(p)) = p

HasChar(s, c) == \E i \in 1..Len(s) : s[i] = c

RECURSIVE SplitFrom(_, _, _)
\* str.split(sep) for a one-character sep: cur is the piece being read.
SplitFrom(s, sep, cur) ==
    IF s = <<>> THEN <<cur>>
    ELSE IF Head(s) = sep THEN <<cur>> \o SplitFrom(Tail(s), sep, <<>>)
    ELSE SplitFrom(Tail(s), sep, Append(cur, Head(s)))

Split(s, sep) == SplitFrom(s, sep, <<>>)

RECURSIVE Join(_, _)
\* sep.join(parts)
Join(parts, sep) ==
    IF parts = <<>> THEN <<>>
    ELSE IF Len(parts) = 1 THEN parts[1]
    ELSE parts[1] \o <<sep>> \o Join(Tail(parts), sep)

Digits == <<"0", "1", "2", "3", "4", "5", "6", "7", "8", "9">>

IsDigit(c) == \E i \in 1..10 : Digits[i] = c

DigitVal(c) == (CHOOSE i \in 1..10 : Digits[i] = c) - 1

\* int(s) succeeds on a non-empty run of digits (sign and blanks left out).
IsInt(s) == s # <<>> /\ \A i \in 1..Len(s) : IsDigit(s[i])

RECURSIVE IntOf(_)
IntOf(s) == IF s = <<>> THEN 0 ELSE IntOf(SubSeq(s, 1, Len(s) - 1)) * 10 + DigitVal(s[Len(s)])

\* a in s for strings: s holds a as a contiguous run.
IsSubstring(a, s) ==
    \E i \in 1..(Len(s) - Len(a) + 1) : SubSeq(s, i, i + Len(a) - 1) = a

-----------------------------------------------------------------------------
(* PathUtils *)

\* A simplify_path that drops a bracketed first segment also when it is
\* the only one.
simplify_path_always(path) ==
    LET p1 == IF StartsWith(path, <<"$", ".">>) THEN SubSeq(path, 3, Len(path)) ELSE path
        parts == Split(p1, ".")
    IN  IF HasChar(parts[1], "[")
        THEN Join(Tail(parts), ".")
        ELSE p1

\* PathUtils.simplify_path
simplify_path(path) ==
    LET p1 == IF StartsWith(path, <<"$", ".">>) THEN SubSeq(path, 3, Len(path)) ELSE path
        parts == Split(p1, ".")
    IN  IF Len(parts) > 1 /\ HasChar(parts[1], "[")
        THEN Join(Tail(parts), ".")
        ELSE p1

\* x in current, for the Python types `in` is defined on.
PyIn(name, current) ==
    CASE current.k = "dict" -> ToStr(name) \in DOMAIN current.v
      [] current.k = "list" -> \E i \in 1..Len(current.v) : PyEq(current.v[i], Str(name))
      [] current.k = "str" -> IsSubstring(name, current.v)
      [] OTHER -> FALSE

\* One step of the loop of get_value_from_path: the next current, None to
\* return None, or Raise for an exception the code does not catch.
path_step(current, part) ==
    IF HasChar(part, "[") /\ HasChar(part, "]")
    THEN LET array_name == Split(part, "[")[1]
             index_part == Split(Split(part, "[")[2], "]")[1]
         IN  IF current.k \notin {"dict", "list", "str"}
             THEN Raise("TypeError")
             ELSE IF ~PyIn(array_name, current) THEN [stop |-> TRUE, val |-> None]
             ELSE IF ~IsInt(index_part) THEN [stop |-> TRUE, val |-> None]
             ELSE IF current.k # "dict" THEN Raise("TypeError")
             ELSE LET arr == current.v[ToStr(array_name)]
                      index == IntOf(index_part)
                  IN  IF arr.k = "list" /\ index < Len(arr.v)
                      THEN [stop |-> FALSE, val |-> arr.v[index + 1]]
                      ELSE [stop |-> TRUE, val |-> None]
    ELSE IF current.k = "dict" /\ ToStr(part) \in DOMAIN current.v
         THEN [stop |-> FALSE, val |-> current.v[ToStr(part)]]
         ELSE [stop |-> TRUE, val |-> None]

RECURSIVE walk_path(_, _)
walk_path(current, parts) ==
    IF parts = <<>> THEN current
    ELSE LET r == path_step(current, Head(parts))
         IN  IF "stop" \notin DOMAIN r THEN r
             ELSE IF r.stop THEN r.val
             ELSE walk_path(r.val, Tail(parts))

\* PathUtils.get_value_from_path
get_value_from_path(entity, path) ==
    IF path = <<>> THEN None ELSE walk_path(entity, Split(path, "."))

\* PathUtils.extract_entity_list; data is a record (a Python dict).
extract_entity_list(data, entity_type) ==
    LET plural_key == entity_type \o "s"
    IN  IF plural_key \in DOMAIN data /\ data[plural_key].k = "list"
        THEN data[plural_key].v
        ELSE IF entity_type \in DOMAIN data /\ data[entity_type].k = "list"
        THEN data[entity_type].v
        ELSE <<>>

-----------------------------------------------------------------------------
(* Operator *)

\* The dict of get_operator_function: operator name -> implementation.
operators ==
    [equal |-> "equal", eq |-> "equal", not_equal |-> "not_equal", neq |-> "not_equal",
     greater_than |-> "greater_than", gt |-> "greater_than",
     less_than |-> "less_than", lt |-> "less_than",
     greater_than_equal |-> "greater_than_equal", gte |-> "greater_than_equal",
     less_than_equal |-> "less_than_equal", lte |-> "less_than_equal",
     exists |-> "exists", not_empty |-> "not_empty",
     match |-> "match", matches |-> "match", contains |-> "contains",
     in_list |-> "in_list", not_in_list |-> "not_in_list",
     role_device |-> "role_device",
     max_length |-> "max_length", exact_length |-> "exact_length"]
    @@ ("=" :> "equal")

\* Operator.get_operator_function: the implementation, or the ValueError.
get_operator_function(operator_name) ==
    IF operator_name \notin DOMAIN operators
    THEN Raise("Unsupported operator: " \o operator_name)
    ELSE [k |-> "func", v |-> operators[operator_name]]

\* float(x) returns (integers and digit strings; fractions left out).
FloatOk(a) == a.k \in {"num", "bool"} \/ (a.k = "str" /\ IsInt(a.v))

FloatVal(a) == IF a.k = "str" THEN IntOf(a.v) ELSE NumVal(a)

\* The four comparison operators: False on TypeError/ValueError of float().
compare(f, actual, expected) ==
    IF ~(FloatOk(actual) /\ FloatOk(expected)) THEN Bool(FALSE)
    ELSE LET a == FloatVal(actual)
             e == FloatVal(expected)
         IN  Bool(CASE f = "greater_than" -> a > e
                    [] f = "less_than" -> a < e
                    [] f = "greater_than_equal" -> a >= e
                    [] OTHER -> a <= e)

\* Operator.exists
exists(actual, expected) == Bool(PyEq(Bool(actual.k # "null"), expected))

\* Operator.not_empty
not_empty(actual, expected) ==
    IF actual.k = "null" THEN Bool(~Truthy(expected))
    ELSE IF actual.k \in {"list", "dict", "str"} THEN Bool(PyEq(Bool(Truthy(actual)), expected))
    ELSE Bool(Truthy(expected))

\* Operator.match, for patterns without metacharacters: re.match anchors at
\* the start only.
match(actual, expected) ==
    IF actual.k # "str" \/ expected.k # "str" THEN Bool(FALSE)
    ELSE Bool(StartsWith(actual.v, expected.v))

\* Operator.contains
contains(actual, expected) ==
    CASE actual.k = "str" ->
            IF expected.k = "str" THEN Bool(IsSubstring(expected.v, actual.v))
            ELSE Raise("TypeError")
      [] actual.k = "list" -> Bool(\E i \in 1..Len(actual.v) : PyEq(actual.v[i], expected))
      [] OTHER -> Bool(FALSE)

\* Operator.in_list
in_list(actual, expected) ==
    IF expected.k # "list" THEN Bool(FALSE)
    ELSE Bool(\E i \in 1..Len(expected.v) : PyEq(expected.v[i], actual))

role == (<<"s", "t", "a", "n", "d", "a", "l", "o", "n", "e">> :> "0")
        @@ (<<"p", "r", "i", "m", "a", "r", "y">> :> "1")
        @@ (<<"s", "e", "c", "o", "n", "d", "a", "r", "y">> :> "2")

\* Operator.role_device
role_device(actual, expected) ==
    IF expected.k \in {"list", "dict"} THEN Bool(FALSE)
    ELSE IF actual.k # "str" \/ expected.k # "str" THEN Bool(FALSE)
    ELSE IF expected.v \notin DOMAIN role THEN Bool(FALSE)
    ELSE IF Len(actual.v) < 3 THEN Bool(FALSE)
    ELSE Bool(role[expected.v] = actual.v[Len(actual.v) - 2])

\* Operator.max_length and Operator.exact_length: len(actual) against
\* expected; comparing an int with a str, list, dict or None is a TypeError
\* for <=, and plain inequality for ==.
length_op(f, actual, expected) ==
    IF actual.k \notin {"str", "list", "dict"} THEN Bool(FALSE)
    ELSE IF expected.k \in {"num", "bool"}
         THEN Bool(IF f = "max_length" THEN PyLen(actual) <= NumVal(expected)
                   ELSE PyLen(actual) = NumVal(expected))
    ELSE IF f = "max_length" THEN Raise("TypeError")
    ELSE Bool(FALSE)

\* operator_func(actual_value, expected_value): Bool(..) or Raise(..).
operator_func(f, actual, expected) ==
    CASE f = "equal" -> Bool(PyEq(actual, expected))
      [] f = "not_equal" -> Bool(~PyEq(actual, expected))
      [] f \in {"greater_than", "less_than", "greater_than_equal", "less_than_equal"} ->
            compare(f, actual, expected)
      [] f = "exists" -> exists(actual, expected)
      [] f = "not_empty" -> not_empty(actual, expected)
      [] f = "match" -> match(actual, expected)
      [] f = "contains" -> contains(actual, expected)
      [] f = "in_list" -> in_list(actual, expected)
      [] f = "not_in_list" -> Bool(~in_list(actual, expected).v)
      [] f = "role_device" -> role_device(actual, expected)
      [] OTHER -> length_op(f, actual, expected)

-----------------------------------------------------------------------------
(* FailureInfo, conditions and ConditionFactory *)

\* FailureInfo(operator, path, expected_value, actual_value); path as one string.
FailureInfo(operator, path, expected_value, actual_value) ==
    [operator |-> operator, path |-> path,
     expected_value |-> expected_value, actual_value |-> actual_value]

\* create_condition returning Python None.
NoCondition == [t |-> "NoneType"]

\* A call that returned (success, failures); failures None is the empty list.
Ret(success, failures) == [k |-> "ret", success |-> success, failures |-> failures]

\* dict.get(key, default)
Get(d, key, default) == IF key \in DOMAIN d THEN d[key] ELSE default

\* A list comprehension stops at the first element whose computation raises.
HasRaise(s) == \E i \in 1..Len(s) : "k" \in DOMAIN s[i]

FirstRaise(s) ==
    s[CHOOSE i \in 1..Len(s) : "k" \in DOMAIN s[i] /\ \A j \in 1..(i - 1) : "k" \notin DOMAIN s[j]]

RECURSIVE create_condition(_)
\* [condition_factory.create_condition(cond) for cond in xs]: a list gives one
\* child per item, a str or dict gives one None per character or key, and
\* anything else is not iterable.
from_dict_children(xs) ==
    CASE xs.k = "list" -> [i \in 1..Len(xs.v) |-> create_condition(xs.v[i])]
      [] xs.k \in {"str", "dict"} -> [i \in 1..PyLen(xs) |-> NoCondition]
      [] OTHER -> <<Raise("TypeError")>>

\* All.from_dict, Any.from_dict, None_.from_dict
from_dict(cls, key, data) ==
    LET conditions == from_dict_children(Get(data.v, key, List(<<>>)))
    IN  IF HasRaise(conditions) THEN FirstRaise(conditions)
        ELSE [t |-> cls, conditions |-> conditions]

\* ConditionFactory.create_condition; a leaf keeps path as characters and
\* operator as a name, as the rule model types both as str.
create_condition(data) ==
    IF data.k # "dict" THEN NoCondition
    ELSE IF DOMAIN data.v = {} THEN NoCondition
    ELSE IF "all" \in DOMAIN data.v THEN from_dict("All", "all", data)
    ELSE IF "any" \in DOMAIN data.v THEN from_dict("Any", "any", data)
    ELSE IF "none" \in DOMAIN data.v THEN from_dict("None_", "none", data)
    ELSE IF "not" \in DOMAIN data.v
         THEN LET condition == create_condition(data.v["not"])
              IN  IF "k" \in DOMAIN condition THEN condition
                  ELSE [t |-> "Not", condition |-> condition]
    ELSE IF "path" \in DOMAIN data.v /\ "operator" \in DOMAIN data.v
         THEN [t |-> "Value", path |-> data.v.path, operator |-> data.v.operator,
               expected_value |-> Get(data.v, "value", None)]
    ELSE NoCondition

\* A return that reports the normalised path in place of the leaf's own.
value_return_simplified(c, actual_value, success) ==
    IF IsRaise(success) THEN success
    ELSE IF success.v THEN Ret(TRUE, <<>>)
    ELSE Ret(FALSE, <<FailureInfo(c.operator, ToStr(simplify_path(c.path)),
                                  c.expected_value, actual_value)>>)

\* StandardValueCondition.evaluate_with_details
\* What it returns once operator_func has given success (or raised).
value_return(c, actual_value, success) ==
    IF IsRaise(success) THEN success
    ELSE IF success.v THEN Ret(TRUE, <<>>)
    ELSE Ret(FALSE, <<FailureInfo(c.operator, ToStr(c.path), c.expected_value, actual_value)>>)

\* Its steps once the value and the operator function are there (or raised).
value_apply(c, actual_value, f) ==
    IF IsRaise(actual_value) THEN actual_value
    ELSE IF IsRaise(f) THEN f
    ELSE value_return(c, actual_value, operator_func(f.v, actual_value, c.expected_value))

value_evaluate_with_details(c, entity) ==
    value_apply(c, get_value_from_path(entity, simplify_path(c.path)),
                get_operator_function(c.operator))

RECURSIVE evaluate_with_details(_, _)
RECURSIVE all_loop(_, _, _)
\* One pass of the loop of All.evaluate_with_details, r being what the
\* first remaining condition returned.
all_step(r, conditions, entity, all_failures) ==
    IF IsRaise(r) THEN r
    ELSE all_loop(Tail(conditions), entity,
                  IF ~r.success /\ r.failures # <<>>
                  THEN all_failures \o r.failures ELSE all_failures)

\* The loop of All.evaluate_with_details over the remaining conditions.
all_loop(conditions, entity, all_failures) ==
    IF conditions = <<>>
    THEN IF all_failures # <<>> THEN Ret(FALSE, all_failures) ELSE Ret(TRUE, <<>>)
    ELSE all_step(evaluate_with_details(Head(conditions), entity),
                  conditions, entity, all_failures)

RECURSIVE any_loop(_, _, _)
\* One pass of an Any that puts the failures of a later child first.
any_step_reversed(r, conditions, entity, all_failures) ==
    IF IsRaise(r) THEN r
    ELSE IF r.success THEN Ret(TRUE, <<>>)
    ELSE any_loop(Tail(conditions), entity, r.failures \o all_failures)

\* One pass of the loop of Any.evaluate_with_details.
any_step(r, conditions, entity, all_failures) ==
    IF IsRaise(r) THEN r
    ELSE IF r.success THEN Ret(TRUE, <<>>)
    ELSE any_loop(Tail(conditions), entity, all_failures \o r.failures)

\* The loop of Any.evaluate_with_details.
any_loop(conditions, entity, all_failures) ==
    IF conditions = <<>> THEN Ret(FALSE, all_failures)
    ELSE any_step(evaluate_with_details(Head(conditions), entity),
                  conditions, entity, all_failures)

RECURSIVE none_loop(_, _)
\* One pass of the loop of None_.evaluate_with_details.
none_step(r, conditions, entity) ==
    IF IsRaise(r) THEN r
    ELSE IF r.success THEN Ret(FALSE, <<FailureInfo("none", "composite", None, None)>>)
    ELSE none_loop(Tail(conditions), entity)

\* The loop of None_.evaluate_with_details.
none_loop(conditions, entity) ==
    IF conditions = <<>> THEN Ret(TRUE, <<>>)
    ELSE none_step(evaluate_with_details(Head(conditions), entity), conditions, entity)

\* What Not returns, r being what its condition returned.
not_return(r) ==
    IF IsRaise(r) THEN r
    ELSE IF ~r.success THEN Ret(TRUE, <<>>)
    ELSE Ret(FALSE, <<FailureInfo("not", "composite", None, None)>>)

\* Not.evaluate_with_details
not_evaluate_with_details(c, entity) == not_return(evaluate_with_details(c.condition, entity))

\* condition.evaluate_with_details(entity), dispatched on the class; a None
\* in the place of a condition has no such method.
evaluate_with_details(c, entity) ==
    CASE c.t = "All" -> all_loop(c.conditions, entity, <<>>)
      [] c.t = "Any" -> any_loop(c.conditions, entity, <<>>)
      [] c.t = "None_" -> none_loop(c.conditions, entity)
      [] c.t = "Not" -> not_evaluate_with_details(c, entity)
      [] c.t = "Value" -> value_evaluate_with_details(c, entity)
      [] OTHER -> Raise("'NoneType' object has no attribute 'evaluate_with_details'")

-----------------------------------------------------------------------------
(* RuleResult and RuleEvaluator *)

RECURSIVE IntStr(_)
\* str(n) of a natural number.
IntStr(n) == IF n < 10 THEN Digits[n + 1] ELSE IntStr(n \div 10) \o Digits[(n % 10) + 1]

\* RuleResult(...): failing_elements and failure_details default to [].
RuleResult(rule_name, success, message, input_data, failing_elements, failure_details) ==
    [rule_name |-> rule_name, success |-> success, message |-> message,
     input_data |-> input_data, failing_elements |-> failing_elements,
     failure_details |-> failure_details]

\* A call that returned (success, failing_entities, failure_details).
Ret3(success, failing_entities, failure_details) ==
    [k |-> "ret", success |-> success, failing_entities |-> failing_entities,
     failure_details |-> failure_details]

RECURSIVE entities_loop(_, _, _, _)
\* One pass of the loop of evaluate_rule_for_entities, r being what the
\* root condition returned for the first remaining entity.
entities_step(r, root_condition, entities, failing_entities, all_failures) ==
    IF IsRaise(r) THEN r
    ELSE IF ~r.success /\ r.failures # <<>>
         THEN entities_loop(root_condition, Tail(entities),
                            Append(failing_entities, Head(entities)),
                            all_failures \o r.failures)
    ELSE entities_loop(root_condition, Tail(entities), failing_entities, all_failures)

\* The loop of evaluate_rule_for_entities over the remaining entities.
entities_loop(root_condition, entities, failing_entities, all_failures) ==
    IF entities = <<>>
    THEN Ret3(failing_entities = <<>>, failing_entities, all_failures)
    ELSE entities_step(evaluate_with_details(root_condition, Head(entities)),
                       root_condition, entities, failing_entities, all_failures)

\* evaluate_rule_for_entities from the root condition on.
evaluate_root_condition(root_condition, entities) ==
    IF "k" \in DOMAIN root_condition THEN root_condition
    ELSE IF root_condition = NoCondition
         THEN Ret3(FALSE, entities, <<FailureInfo("invalid", "conditions", None, None)>>)
    ELSE entities_loop(root_condition, entities, <<>>, <<>>)

\* RuleEvaluator.evaluate_rule_for_entities; rule is a record (a Python dict).
evaluate_rule_for_entities(entities, rule) ==
    IF "conditions" \notin DOMAIN rule
    THEN Ret3(FALSE, entities, <<FailureInfo("missing", "conditions", None, None)>>)
    ELSE evaluate_root_condition(create_condition(rule.conditions), entities)

\* The RuleResult of one rule, r being what evaluate_rule_for_entities
\* returned or the exception it raised.
rule_result(r, rule_name, entities, rule) ==
    IF IsRaise(r)
    THEN RuleResult(rule_name, FALSE, "Error evaluating rule: " \o r.v, rule, <<>>,
                    <<FailureInfo("error", r.v, None, None)>>)
    ELSE RuleResult(rule_name, r.success,
                    IF r.success THEN "All entities fulfill the rule"
                    ELSE IntStr(Len(r.failing_entities)) \o " of " \o IntStr(Len(entities))
                         \o " entities do not fulfill the rule",
                    rule, r.failing_entities, r.failure_details)

\* The body of the loop of RuleEvaluator.evaluate_data.
evaluate_one_rule(entities, rule) ==
    rule_result(evaluate_rule_for_entities(entities, rule),
                Get(rule, "name", "Unnamed Rule"), entities, rule)

\* An evaluate_data without the early return on an empty entity list.
evaluate_data_always(data, rules, entity_type) ==
    [i \in 1..Len(rules) |->
        evaluate_one_rule(extract_entity_list(data, entity_type), rules[i])]

\* An evaluate_data whose loop lets the first exception end the whole call:
\* the results computed so far are all the caller gets.
evaluate_data_abort(data, rules, entity_type) ==
    LET entities == extract_entity_list(data, entity_type)
        raises(i) == IsRaise(evaluate_rule_for_entities(entities, rules[i]))
        n == IF \E i \in 1..Len(rules) : raises(i)
             THEN (CHOOSE i \in 1..Len(rules) : raises(i) /\ \A j \in 1..(i - 1) : ~raises(j)) - 1
             ELSE Len(rules)
    IN  IF entities = <<>> THEN <<>>
        ELSE [i \in 1..n |-> evaluate_one_rule(entities, rules[i])]

\* RuleEvaluator.evaluate_data
evaluate_data(data, rules, entity_type) ==
    LET entities == extract_entity_list(data, entity_type)
    IN  IF entities = <<>> THEN <<>>
        ELSE [i \in 1..Len(rules) |-> evaluate_one_rule(entities, rules[i])]

-----------------------------------------------------------------------------
(* The evaluator on its own: SpecEval draws a rule list and a document and *)
(* applies RuleEvaluator.evaluate_data to them.                            *)

\* "$.devices[*].vendor"
VendorPath == <<"$", ".", "d", "e", "v", "i", "c", "e", "s", "[", "*", "]", ".",
                "v", "e", "n", "d", "o", "r">>

Leaf(path, operator, value) == Dict([path |-> path, operator |-> operator, value |-> value])

VendorIs(c) == Leaf(VendorPath, "equal", Str(<<c>>))

\* The rule dicts of the harness: a passing/failing leaf, an unknown operator,
\* an empty any, a nested tree, a none, a rule without conditions, an unnamed
\* rule with an empty conditions dict, and an all over a dict that is no condition.
EvalRules ==
    { [name |-> "R1", conditions |-> VendorIs("C")],
      [name |-> "R2", conditions |-> Leaf(VendorPath, "bogus", Str(<<"C">>))],
      [name |-> "R3", conditions |-> Dict([any |-> List(<<>>)])],
      [name |-> "R4", conditions |->
          Dict([all |-> List(<<Dict([not |-> VendorIs("J")]),
                               Dict([any |-> List(<<VendorIs("C"),
                                                    Leaf(VendorPath, "bogus", None)>>)])>>)])],
      [name |-> "R5", conditions |-> Dict([none |-> List(<<VendorIs("J")>>)])],
      [name |-> "R6"],
      [conditions |-> Dict(<<>>)],
      [name |-> "R7", conditions |-> Dict([all |-> List(<<Dict([foo |-> None])>>)])] }

EvalEntities == { Dict([vendor |-> Str(<<"C">>)]), Dict([vendor |-> Str(<<"J">>)]) }

\* All sequences over S of length at most n.
SeqsUpTo(S, n) == UNION { [1..m -> S] : m \in 0..n }

EvalDocuments ==
    { [devices |-> List(es)] : es \in SeqsUpTo(EvalEntities, MaxEntities) }
    \cup { [device |-> List(<<e>>)] : e \in EvalEntities }
    \cup { [tasks |-> List(<<>>)] }

\* The values the variables of the other specifications rest at.
AppIdle == rule_repository = <<>>

CoreIdle == rules_by_entity = <<>>

RequestIdle == last = [op |-> "none"]

EvalIdle ==
    /\ ev_rules = <<>>
    /\ ev_data = <<>>
    /\ ev_results = [called |-> FALSE, results |-> <<>>]

ConcIdle ==
    /\ instance = None
    /\ repos = <<>>
    /\ pc = <<>>
    /\ svc = <<>>
    /\ req = <<>>
    /\ made = <<>>

HashIdle == hash_order = <<>>

InitEval ==
    /\ ev_rules \in SeqsUpTo(EvalRules, MaxEvalRules)
    /\ ev_data \in EvalDocuments
    /\ ev_results = [called |-> FALSE, results |-> <<>>]
    /\ AppIdle
    /\ CoreIdle
    /\ RequestIdle
    /\ ConcIdle
    /\ HashIdle

\* A caller applies RuleEvaluator.evaluate_data(data, rules, "device").
EvaluateData ==
    /\ ~ev_results.called
    /\ ev_results' = [called |-> TRUE, results |-> evaluate_data(ev_data, ev_rules, "device")]
    /\ UNCHANGED <<ev_rules, ev_data, rule_repository, rules_by_entity, last,
                   instance, repos, pc, svc, req, made, hash_order>>

NextEval == EvaluateData

SpecEval == InitEval /\ [][NextEval]_vars

-----------------------------------------------------------------------------
(* The rule repository: RuleEngine (app/services/rule_engine.py) *)

Range(s) == { s[i] : i \in DOMAIN s }

\* list(S) of a Python set: its elements once each, in an order the hash
\* seed of the run decides.
ListsOf(S) == { f \in [1..Cardinality(S) -> S] : Range(f) = S }

\* An optional str that is present.
Name(s) == [k |-> "name", v |-> s]

\* f"{entity_type}|{name}"
stored_rule_key(entity_type, name) == entity_type \o "|" \o name

\* key in self.rule_repository
HasKey(repo, key) == \E i \in 1..Len(repo) : repo[i].key = key

\* self.rule_repository[key]
Lookup(repo, key) == repo[CHOOSE i \in 1..Len(repo) : repo[i].key = key].value

\* self.rule_repository[key] = value: an existing key keeps its place in the
\* dict, a new one goes last.
Put(repo, key, value) ==
    IF HasKey(repo, key)
    THEN [i \in 1..Len(repo) |-> IF repo[i].key = key
                                 THEN [key |-> key, value |-> value] ELSE repo[i]]
    ELSE Append(repo, [key |-> key, value |-> value])

\* self.rule_repository.values()
Values(repo) == [i \in 1..Len(repo) |-> repo[i].value]

\* Rule(name, entity_type, conditions) of the service (description left out).
Rule(name, entity_type, conditions) ==
    [name |-> name, entity_type |-> entity_type, conditions |-> conditions]

StoredRule(rule_name, entity_type, categories, rule) ==
    [rule_name |-> rule_name, entity_type |-> entity_type,
     categories |-> categories, rule |-> rule]

\* RuleEngine.add_rule(rule, categories); categories is list(categories) of
\* the set the caller passed, in the order the run gave it.
add_rule(repo, rule, categories) ==
    Put(repo, stored_rule_key(rule.entity_type, rule.name),
        StoredRule(rule.name, rule.entity_type, categories, rule))

\* RuleEngine.rule_exists
rule_exists(repo, rule_name, entity_type) ==
    HasKey(repo, stored_rule_key(entity_type, rule_name))

\* RuleEngine.get_stored_rule_by_name_and_entity_type: the rule, or the ValueError.
get_stored_rule_by_name_and_entity_type(repo, rule_name, entity_type) ==
    IF HasKey(repo, stored_rule_key(entity_type, rule_name))
    THEN Lookup(repo, stored_rule_key(entity_type, rule_name))
    ELSE Raise("Rule with name '" \o rule_name \o "' not found for entity type '"
               \o entity_type \o "'")

\* RuleEngine.get_stored_rules_by_names_and_entity_type: the list
\* comprehension raises at the first name that is not stored.
get_stored_rules_by_names_and_entity_type(repo, rule_names, entity_type) ==
    LET stored_rules == [i \in 1..Len(rule_names) |->
            get_stored_rule_by_name_and_entity_type(repo, rule_names[i], entity_type)]
    IN  IF HasRaise(stored_rules) THEN FirstRaise(stored_rules)
        ELSE [k |-> "ret", v |-> stored_rules]

\* any(category in stored_rule.categories for category in categories)
any_category(stored_rule, categories) ==
    \E i \in 1..Len(categories.v) : categories.v[i] \in Range(stored_rule.categories)

\* A get_stored_rules whose last branch forgets the entity type.
get_stored_rules_any_type(repo, entity_type, categories) ==
    LET all == Values(repo)
        of_type(r) == r.entity_type = entity_type.v
        in_cats(r) == any_category(r, categories)
    IN  IF categories = None
        THEN (IF entity_type = None THEN all ELSE SelectSeq(all, of_type))
        ELSE SelectSeq(all, in_cats)

\* RuleEngine.get_stored_rules(entity_type, categories): the four branches.
get_stored_rules(repo, entity_type, categories) ==
    LET all == Values(repo)
        of_type(r) == r.entity_type = entity_type.v
        in_cats(r) == any_category(r, categories)
        both(r) == of_type(r) /\ in_cats(r)
    IN  IF entity_type = None /\ categories = None THEN all
        ELSE IF entity_type # None /\ categories = None THEN SelectSeq(all, of_type)
        ELSE IF entity_type = None /\ categories # None THEN SelectSeq(all, in_cats)
        ELSE SelectSeq(all, both)

\* How a stored rule reaches RuleEvaluator, which reads rule["name"] and
\* rule["conditions"].
rule_dict(stored_rule) ==
    [name |-> stored_rule.rule_name, conditions |-> stored_rule.rule.conditions]

\* The names of the rules the requests store.
RuleNames == {"R1", "R2"}

\* A list(set) that gives any ordering at every call.
list_of_set_any_order(S) == ListsOf(S)

\* list(S) of a set of stored rules of one entity type: the order of a set
\* is the order of the hashes of its elements, which are fixed for the run,
\* so the same set gives the same list at every call. The one list is
\* handed back as the set of the lists the call can give.
list_of_set(S) ==
    { f \in ListsOf(S) :
        \A i, j \in 1..Len(f) :
            i < j => \E a, b \in 1..Len(hash_order) :
                         /\ hash_order[a] = f[i].rule_name
                         /\ hash_order[b] = f[j].rule_name
                         /\ a < b }

\* RuleEngine.get_stored_rules_to_evaluate: the rules are collected in a set
\* (a stored rule is identified by entity type and name, one object per key)
\* and handed back as list(set), in the order the hashes of the run give.
get_stored_rules_to_evaluate(repo, entity_type, categories, rule_names) ==
    IF Truthy(rule_names)
    THEN LET stored_rules ==
                 get_stored_rules_by_names_and_entity_type(repo, rule_names.v, entity_type)
         IN  IF IsRaise(stored_rules) THEN stored_rules
             ELSE [k |-> "ret", v |-> list_of_set(Range(stored_rules.v))]
    ELSE IF Truthy(categories)
    THEN [k |-> "ret",
          v |-> list_of_set(Range(get_stored_rules(repo, Name(entity_type), categories)))]
    ELSE [k |-> "ret", v |-> list_of_set(Range(get_stored_rules(repo, Name(entity_type), None)))]

\* RuleEngine.evaluate_data_with_criteria: every result list it can return,
\* or the exception.
evaluate_data_with_criteria(repo, data_dict, entity_type, categories, rule_names) ==
    LET r == get_stored_rules_to_evaluate(repo, entity_type, categories, rule_names)
    IN  IF IsRaise(r) THEN r
        ELSE [k |-> "ret",
              v |-> { IF l = <<>> THEN <<>>
                      ELSE evaluate_data(data_dict, [i \in 1..Len(l) |-> rule_dict(l[i])],
                                         entity_type) : l \in r.v }]

-----------------------------------------------------------------------------
(* RuleService and the routes *)

\* RuleService.evaluate_data_with_criteria: hands the request to the engine.
service_evaluate_data_with_criteria(repo, data, entity_type, categories, rule_names) ==
    evaluate_data_with_criteria(repo, data, entity_type, categories, rule_names)

RECURSIVE store_loop(_, _, _)
\* The loop of RuleService.spike_store_rules: every repository it can leave.
store_loop(repo, entity_type, rules) ==
    IF rules = <<>> THEN {repo}
    ELSE LET rule == Head(rules)
             existing_categories ==
                 IF rule_exists(repo, rule.name, entity_type)
                 THEN get_stored_rule_by_name_and_entity_type(repo, rule.name,
                                                              entity_type).categories
                 ELSE <<>>
             new_rule == Rule(rule.name, entity_type, rule.conditions)
             all_categories_to_include ==
                 IF existing_categories # <<>>
                 THEN Range(existing_categories \o rule.add_to_categories)
                 ELSE Range(rule.add_to_categories)
         IN  UNION { store_loop(add_rule(repo, new_rule, categories), entity_type, Tail(rules))
                     : categories \in ListsOf(all_categories_to_include) }

\* updated_rules of spike_store_rules: the rules whose key was stored before
\* the request or by an earlier rule of the request.
updated_rules(repo, entity_type, rules) ==
    Cardinality({ i \in 1..Len(rules) :
                     \/ rule_exists(repo, rules[i].name, entity_type)
                     \/ \E j \in 1..(i - 1) : rules[j].name = rules[i].name })

\* RuleService.spike_store_rules: the repositories it can leave and its return value.
spike_store_rules(repo, entity_type, rules) ==
    [repos |-> store_loop(repo, entity_type, rules),
     response |-> [success |-> TRUE,
                   message |-> "Successfully stored rules: "
                       \o IntStr(Len(rules) - updated_rules(repo, entity_type, rules))
                       \o " new, " \o IntStr(updated_rules(repo, entity_type, rules))
                       \o " updated",
                   stored_rules_count |-> Len(rules)]]

\* self.rule_repository[key].categories = categories
set_categories(repo, key, categories) ==
    [i \in 1..Len(repo) |->
        IF repo[i].key = key
        THEN [key |-> key, value |-> [repo[i].value EXCEPT !.categories = categories]]
        ELSE repo[i]]

\* RuleService._add_categories: the stored rule is looked up (ValueError when
\* absent) and its categories become the union of the old and the new; a
\* union is a set, so the listing order is open.
_add_categories(repo, entity_type, rule_name, categories) ==
    LET stored == get_stored_rule_by_name_and_entity_type(repo, rule_name, entity_type)
    IN  IF IsRaise(stored) THEN stored
        ELSE [k |-> "ret",
              v |-> { set_categories(repo, stored_rule_key(entity_type, rule_name), cl)
                      : cl \in ListsOf(Range(stored.categories) \cup Range(categories)) }]

RECURSIVE ReprItems(_)
ReprItems(l) ==
    IF l = <<>> THEN ""
    ELSE "'" \o Head(l) \o "'" \o (IF Len(l) > 1 THEN ", " ELSE "") \o ReprItems(Tail(l))

\* str(l) of a list of strings, as an f-string renders it.
ListRepr(l) == "[" \o ReprItems(l) \o "]"

\* The message of a successful update_rule_categories.
updated_message(rule_name, entity_type, categories) ==
    "Successfully updated categories " \o ListRepr(categories) \o ", for "
    \o entity_type \o " rule " \o rule_name

\* An update_rule_categories that reports success without touching the rule.
update_rule_categories_noop(repo, rule_name, entity_type, categories, category_action) ==
    [repos |-> {repo},
     response |-> [success |-> TRUE,
                   message |-> updated_message(rule_name, entity_type, categories)]]

\* RuleService.update_rule_categories: only "add" has a branch; an exception
\* becomes (False, message).
update_rule_categories(repo, rule_name, entity_type, categories, category_action) ==
    LET r == IF category_action = "add"
             THEN _add_categories(repo, entity_type, rule_name, categories)
             ELSE [k |-> "ret", v |-> {repo}]
    IN  IF IsRaise(r)
        THEN [repos |-> {repo},
              response |-> [success |-> FALSE,
                            message |-> "Error updating rule categories: " \o r.v]]
        ELSE [repos |-> r.v,
              response |-> [success |-> TRUE,
                            message |-> updated_message(rule_name, entity_type, categories)]]

UpperCase == <<"A", "B", "C", "D", "E", "F", "G", "H", "I", "J", "K", "L", "M",
               "N", "O", "P", "Q", "R", "S", "T", "U", "V", "W", "X", "Y", "Z">>

LowerCase == <<"a", "b", "c", "d", "e", "f", "g", "h", "i", "j", "k", "l", "m",
               "n", "o", "p", "q", "r", "s", "t", "u", "v", "w", "x", "y", "z">>

\* str.lower(), on the characters of the str.
lower(s) ==
    [i \in 1..Len(s) |->
        IF \E j \in 1..Len(UpperCase) : UpperCase[j] = s[i]
        THEN LowerCase[CHOOSE j \in 1..Len(UpperCase) : UpperCase[j] = s[i]]
        ELSE s[i]]

\* RuleCategoriesRequest.validate_category_action: the lowered action, or ValueError.
validate_category_action(value) ==
    IF ToStr(lower(value)) \notin {"add", "remove"}
    THEN Raise("category_action must be 'add' or 'remove' (case-insensitive).")
    ELSE [k |-> "ret", v |-> ToStr(lower(value))]

\* A validate_filtering_criteria that refuses nothing.
validate_filtering_criteria_off(request) == FALSE

\* EvaluationRequest.validate_filtering_criteria: TRUE when the request is refused.
validate_filtering_criteria(request) ==
    request.categories = None /\ request.rule_names = None

\* RuleEvaluationResult of the response, from a RuleResult.
RuleEvaluationResult(result) ==
    [rule_name |-> result.rule_name, success |-> result.success,
     message |-> result.message, failing_elements |-> result.failing_elements,
     failure_details |-> result.failure_details]

\* The body the /evaluate route builds from the results.
evaluation_response(request, results) ==
    [status |-> 200, entity_type |-> request.entity_type,
     categories |-> request.categories, rule_names |-> request.rule_names,
     total_rules |-> Len(results),
     passed_rules |-> Cardinality({ i \in 1..Len(results) : results[i].success }),
     failed_rules |-> Cardinality({ i \in 1..Len(results) : ~results[i].success }),
     results |-> [i \in 1..Len(results) |-> RuleEvaluationResult(results[i])]]

\* POST /evaluate: every response the route can give. A request the model
\* validator refuses never reaches the handler; an exception in the handler
\* becomes a 400.
evaluate_route(repo, request) ==
    IF validate_filtering_criteria(request)
    THEN { [status |-> 422,
            detail |-> "At least one of 'categories' or 'rule_names' must be provided"] }
    ELSE LET r == service_evaluate_data_with_criteria(repo, request.data, request.entity_type,
                                                      request.categories, request.rule_names)
         IN  IF IsRaise(r)
             THEN { [status |-> 400, detail |-> "Error evaluating data: " \o r.v] }
             ELSE { evaluation_response(request, results) : results \in r.v }

\* _get_entity_key: the entity types whose name ends with "s" are their own
\* key (str.endswith, over the entity types of the requests).
EndsWithS == {"devices", "tasks"}

_get_entity_key(entity_type) ==
    IF entity_type \in EndsWithS THEN entity_type ELSE entity_type \o "s"

\* _extract_entities
_extract_entities(data, entity_type) ==
    LET entity_key == _get_entity_key(entity_type)
    IN  IF entity_key \in DOMAIN data /\ data[entity_key].k = "list" THEN data[entity_key].v
        ELSE IF entity_type \in DOMAIN data /\ data[entity_type].k = "list"
        THEN data[entity_type].v
        ELSE <<>>

RuleFailureDetails(rule_name, failure_details) ==
    [rule_name |-> rule_name, failure_details |-> failure_details]

DataEvaluationItem(data, rules_passed, rules_failed) ==
    [data |-> data,
     evaluation_summary |-> [rules_passed |-> Len(rules_passed),
                             rules_failed |-> Len(rules_failed)],
     rules_passed |-> rules_passed, rules_failed |-> rules_failed]

RECURSIVE rules_loop(_, _, _, _, _, _)
\* One pass of the inner loop of _evaluate_entities, r being what the
\* service returned for this rule name and this entity alone: one list, as
\* one name selects at most one rule.
rules_step(r, repo, single_entity_data, entity_type, original_results, item) ==
    IF IsRaise(r) THEN r
    ELSE LET single_entity_results == CHOOSE l \in r.v : TRUE
             rule_name == Head(original_results).rule_name
         IN  rules_loop(repo, single_entity_data, entity_type, Tail(original_results),
                 IF single_entity_results = <<>> THEN item.rules_passed
                 ELSE IF single_entity_results[1].success
                 THEN Append(item.rules_passed, rule_name)
                 ELSE item.rules_passed,
                 IF single_entity_results = <<>> \/ single_entity_results[1].success
                 THEN item.rules_failed
                 ELSE Append(item.rules_failed,
                             RuleFailureDetails(rule_name,
                                                single_entity_results[1].failure_details)))

\* for rule_result in original_results: ... of _evaluate_entities
rules_loop(repo, single_entity_data, entity_type, original_results, rules_passed, rules_failed) ==
    IF original_results = <<>>
    THEN [k |-> "ret", rules_passed |-> rules_passed, rules_failed |-> rules_failed]
    ELSE rules_step(service_evaluate_data_with_criteria(
                        repo, single_entity_data, entity_type, None,
                        List(<<Head(original_results).rule_name>>)),
                    repo, single_entity_data, entity_type, original_results,
                    [rules_passed |-> rules_passed, rules_failed |-> rules_failed])

RECURSIVE _evaluate_entities(_, _, _, _, _)
\* The item of the first entity, then the items of the others.
entity_step(r, repo, all_entities, entity_key, entity_type, original_results) ==
    IF IsRaise(r) THEN r
    ELSE LET rest == _evaluate_entities(repo, Tail(all_entities), entity_key, entity_type,
                                        original_results)
         IN  IF IsRaise(rest) THEN rest
             ELSE [k |-> "ret",
                   v |-> <<DataEvaluationItem(Head(all_entities), r.rules_passed,
                                              r.rules_failed)>> \o rest.v]

\* _evaluate_entities: every rule of the results is evaluated again, on
\* each entity alone.
_evaluate_entities(repo, all_entities, entity_key, entity_type, original_results) ==
    IF all_entities = <<>> THEN [k |-> "ret", v |-> <<>>]
    ELSE entity_step(rules_loop(repo, (entity_key :> List(<<Head(all_entities)>>)), entity_type,
                                original_results, <<>>, <<>>),
                     repo, all_entities, entity_key, entity_type, original_results)

DataEvaluationResponse(request, total_rules, total_data_objects, results) ==
    [status |-> 200, entity_type |-> request.entity_type, categories |-> request.categories,
     rule_names |-> request.rule_names, total_rules |-> total_rules,
     total_data_objects |-> total_data_objects, results |-> results]

\* The response of evaluate_data_by_item once the items are there (or raised).
by_item_return(items, request, all_entities, original_results) ==
    IF IsRaise(items) THEN [status |-> 400, detail |-> "Error evaluating data: " \o items.v]
    ELSE DataEvaluationResponse(request, Len(original_results), Len(all_entities), items.v)

\* The response of evaluate_data_by_item for one list of results of the service.
by_item_response(repo, request, all_entities, original_results) ==
    IF original_results = <<>> THEN DataEvaluationResponse(request, 0, Len(all_entities), <<>>)
    ELSE by_item_return(_evaluate_entities(repo, all_entities,
                                           _get_entity_key(request.entity_type),
                                           request.entity_type, original_results),
                        request, all_entities, original_results)

\* evaluate_data_by_item once the service has returned r (or raised).
by_item_results(r, repo, request, all_entities) ==
    IF IsRaise(r) THEN { [status |-> 400, detail |-> "Error evaluating data: " \o r.v] }
    ELSE { by_item_response(repo, request, all_entities, original_results) :
             original_results \in r.v }

\* POST /evaluate/by-data: every response the route can give.
evaluate_data_by_item(repo, request) ==
    IF validate_filtering_criteria(request)
    THEN { [status |-> 422,
            detail |-> "At least one of 'categories' or 'rule_names' must be provided"] }
    ELSE IF _extract_entities(request.data, request.entity_type) = <<>>
    THEN { DataEvaluationResponse(request, 0, 0, <<>>) }
    ELSE by_item_results(
             service_evaluate_data_with_criteria(repo, request.data, request.entity_type,
                                                 request.categories, request.rule_names),
             repo, request, _extract_entities(request.data, request.entity_type))

-----------------------------------------------------------------------------
(* The service over the repository: Spec *)

EntityTypes == {"device", "task"}

CategoryLists == { <<>>, <<"a">>, <<"b">> }

APIRule(name, conditions, add_to_categories) ==
    [name |-> name, conditions |-> conditions, add_to_categories |-> add_to_categories]

\* The rules of POST /rules bodies: R1 in two definitions, R2 in one.
DeviceAPIRules ==
    { APIRule("R1", c, cs) : c \in {VendorIs("C"), VendorIs("J")}, cs \in CategoryLists }
    \cup { APIRule("R2", VendorIs("C"), <<"a">>) }

\* A store request carries one device rule, two device rules (two keys, or
\* the same key twice), or one task rule.
StoreRequests ==
    { [entity_type |-> "device", rules |-> <<r>>] : r \in DeviceAPIRules }
    \cup { [entity_type |-> "device",
            rules |-> <<APIRule("R1", VendorIs("C"), <<"a">>), APIRule("R2", VendorIs("C"), <<"a">>)>>],
           [entity_type |-> "device",
            rules |-> <<APIRule("R1", VendorIs("C"), <<"a">>), APIRule("R1", VendorIs("J"), <<"b">>)>>],
           [entity_type |-> "task",
            rules |-> <<APIRule("R1", VendorIs("C"), <<"a">>)>>] }

\* The arguments of direct RuleEngine.add_rule calls; categories is None or a set.
EngineRules == { Rule("R1", "device", VendorIs("C")), Rule("R1", "device", VendorIs("J")) }

SetOf(S) == [k |-> "set", v |-> S]

EngineCategories == { None, SetOf({"b"}), SetOf({"a", "b"}) }

\* The bodies of POST /rules/categories, category_action as its characters.
CategoryUpdates ==
    { [rule_name |-> "R1", entity_type |-> "device", categories |-> cs, category_action |-> a] :
        cs \in { <<"b">>, <<"b", "a">>, <<"a", "a">> },
        a \in { <<"a", "d", "d">>, <<"r", "e", "m", "o", "v", "e">> } }
    \cup { [rule_name |-> "R2", entity_type |-> "device", categories |-> <<"a">>,
            category_action |-> <<"a", "d", "d">>] }
    \cup { [rule_name |-> "R1", entity_type |-> "device", categories |-> <<"b">>,
            category_action |-> a] : a \in { <<"A", "d", "d">>, <<"p", "u", "r", "g", "e">> } }

\* What a caller of RuleService.update_rule_categories can pass as the
\* action, the request model not being in the way.
ServiceActions == {"add", "invalid_action"}

AppData ==
    [devices |-> List(<<Dict([vendor |-> Str(<<"C">>)])>>),
     tasks |-> List(<<Dict([vendor |-> Str(<<"C">>)])>>)]

\* The (categories, rule_names) pairs of evaluate requests; R9 is never stored.
Filters ==
    { <<None, None>>, <<List(<<"a">>), None>>, <<List(<<"a", "b">>), None>>,
      <<List(<<>>), None>>, <<None, List(<<"R1", "R2">>)>>,
      <<None, List(<<"R2", "R1">>)>>, <<None, List(<<"R1", "R9">>)>>,
      <<List(<<"b">>), List(<<"R1">>)>> }

EvaluationRequests ==
    { [data |-> AppData, entity_type |-> e, categories |-> f[1], rule_names |-> f[2]] :
        e \in EntityTypes, f \in Filters }

Init ==
    /\ rule_repository = <<>>
    /\ last = [op |-> "none"]
    /\ hash_order \in ListsOf(RuleNames)
    /\ CoreIdle
    /\ EvalIdle
    /\ ConcIdle

\* POST /rules: RuleService.spike_store_rules on the shared repository.
StoreRules ==
    /\ \E request \in StoreRequests :
          LET out == spike_store_rules(rule_repository, request.entity_type, request.rules)
          IN  /\ rule_repository' \in out.repos
              /\ last' = [op |-> "store_rules", request |-> request,
                          response |-> out.response]
    /\ UNCHANGED <<rules_by_entity, ev_rules, ev_data, ev_results, instance, repos, pc, svc, req, made, hash_order>>

\* A direct RuleEngine.add_rule(rule, categories) on the shared repository.
AddRule ==
    /\ \E rule \in EngineRules, categories \in EngineCategories :
          \E cl \in ListsOf(IF categories = None THEN {} ELSE categories.v) :
              /\ rule_repository' = add_rule(rule_repository, rule, cl)
              /\ last' = [op |-> "add_rule", rule |-> rule, categories |-> categories]
    /\ UNCHANGED <<rules_by_entity, ev_rules, ev_data, ev_results, instance, repos, pc, svc, req, made, hash_order>>

\* The request model with its validated action, handed to the service.
update_rule_categories_route(repo, request, category_action) ==
    IF IsRaise(category_action)
    THEN [repos |-> {repo},
          last |-> [op |-> "request_refused", status |-> 422, body |-> request]]
    ELSE LET out == update_rule_categories(repo, request.rule_name, request.entity_type,
                                           request.categories, category_action.v)
         IN  [repos |-> out.repos,
              last |-> [op |-> "update_rule_categories",
                        request |-> [request EXCEPT !.category_action = category_action.v],
                        response |-> out.response]]

\* POST /rules/categories: the request model is validated, then
\* RuleService.update_rule_categories runs.
UpdateRuleCategories ==
    /\ \E request \in CategoryUpdates :
          LET out == update_rule_categories_route(rule_repository, request,
                         validate_category_action(request.category_action))
          IN  /\ rule_repository' \in out.repos
              /\ last' = out.last
    /\ UNCHANGED <<rules_by_entity, ev_rules, ev_data, ev_results, instance, repos, pc, svc, req, made, hash_order>>

\* A direct RuleService.update_rule_categories(rule_name, entity_type, categories, action).
CallUpdateRuleCategories ==
    /\ \E category_action \in ServiceActions :
          LET out == update_rule_categories(rule_repository, "R1", "device", <<"b">>,
                                            category_action)
          IN  /\ rule_repository' \in out.repos
              /\ last' = [op |-> "update_rule_categories",
                          request |-> [rule_name |-> "R1", entity_type |-> "device",
                                       categories |-> <<"b">>,
                                       category_action |-> category_action],
                          response |-> out.response]
    /\ UNCHANGED <<rules_by_entity, ev_rules, ev_data, ev_results, instance, repos, pc, svc, req, made, hash_order>>

\* RuleEngine.get_stored_rules(entity_type, categories), as GET /rules reads it.
GetStoredRules ==
    /\ \E entity_type \in {None} \cup { Name(e) : e \in EntityTypes },
          categories \in {None} \cup { List(cs) : cs \in CategoryLists \cup {<<"a", "b">>} } :
          last' = [op |-> "get_stored_rules", entity_type |-> entity_type,
                   categories |-> categories,
                   result |-> get_stored_rules(rule_repository, entity_type, categories)]
    /\ UNCHANGED <<rule_repository, rules_by_entity, ev_rules, ev_data, ev_results,
                   instance, repos, pc, svc, req, made, hash_order>>

\* POST /evaluate
Evaluate ==
    /\ \E request \in EvaluationRequests :
          \E response \in evaluate_route(rule_repository, request) :
              last' = [op |-> "evaluate", request |-> request, response |-> response]
    /\ UNCHANGED <<rule_repository, rules_by_entity, ev_rules, ev_data, ev_results,
                   instance, repos, pc, svc, req, made, hash_order>>

\* Two devices, of which the first is of vendor C and the second of vendor J.
TwoDevices ==
    [devices |-> List(<<Dict([vendor |-> Str(<<"C">>)]), Dict([vendor |-> Str(<<"J">>)])>>)]

\* Bodies of POST /evaluate/by-data: by names, by category, with no filter,
\* for an entity type the data has no list of.
ByDataRequests ==
    { [data |-> TwoDevices, entity_type |-> "device", categories |-> f[1], rule_names |-> f[2]] :
        f \in { <<None, List(<<"R1", "R2">>)>>, <<List(<<"a">>), None>>, <<None, None>> } }
    \cup { [data |-> TwoDevices, entity_type |-> "task", categories |-> List(<<"a">>),
            rule_names |-> None] }

\* POST /evaluate/by-data
EvaluateByData ==
    /\ \E request \in ByDataRequests :
          \E response \in evaluate_data_by_item(rule_repository, request) :
              last' = [op |-> "evaluate_by_data", request |-> request, response |-> response]
    /\ UNCHANGED <<rule_repository, rules_by_entity, ev_rules, ev_data, ev_results,
                   instance, repos, pc, svc, req, made, hash_order>>

Next ==
    \/ StoreRules
    \/ AddRule
    \/ UpdateRuleCategories
    \/ CallUpdateRuleCategories
    \/ GetStoredRules
    \/ Evaluate
    \/ EvaluateByData

Spec == Init /\ [][Next]_vars

-----------------------------------------------------------------------------
(* The category-indexed engine: RuleEngine (rule_engine/core/engine.py), SpecCore *)

\* [r for r in rules if r.get("name", "") != rule_name]
without_name(rules, rule_name) ==
    LET other(r) == Get(r, "name", "") # rule_name
    IN  SelectSeq(rules, other)

\* RuleEngine._ensure_entity_structure
ensure_entity_structure(rbe, entity_type) ==
    IF entity_type \in DOMAIN rbe THEN rbe
    ELSE rbe @@ (entity_type :> [rules |-> <<>>, categories |-> <<>>])

\* RuleEngine._add_rule, with OVERWRITE_DUPLICATE_RULES set: the name is
\* cleared from the general list and from this category's list only.
core_add_rule(rbe, rule, entity_type, category) ==
    LET entity_rules == rbe[entity_type]
        rule_name == Get(rule, "name", "")
        rules == Append(without_name(entity_rules.rules, rule_name), rule)
        in_category ==
            IF category \in DOMAIN entity_rules.categories
            THEN without_name(entity_rules.categories[category], rule_name)
            ELSE <<>>
        categories == (category :> Append(in_category, rule)) @@ entity_rules.categories
    IN  [rbe EXCEPT ![entity_type] = [rules |-> rules, categories |-> categories]]

\* JsonLoader.normalize_rules_data for a list of rule dicts: each gets the
\* category key when it has none.
normalize_rules_data(rules_data, category) ==
    [i \in 1..Len(rules_data) |->
        IF "category" \in DOMAIN rules_data[i] THEN rules_data[i]
        ELSE rules_data[i] @@ ("category" :> category)]

RECURSIVE core_add_rules(_, _, _, _)
core_add_rules(rbe, rules, entity_type, category) ==
    IF rules = <<>> THEN rbe
    ELSE core_add_rules(core_add_rule(rbe, Head(rules), entity_type, category),
                        Tail(rules), entity_type, category)

\* RuleEngine.load_rules_from_json; the JSON text is given by the list it parses to.
load_rules_from_json(rbe, rules_data, entity_type, category) ==
    core_add_rules(ensure_entity_structure(rbe, entity_type),
                   normalize_rules_data(rules_data, category), entity_type, category)

\* RuleEngine.get_rules_by_category
get_rules_by_category(rbe, entity_type, category) ==
    IF entity_type \notin DOMAIN rbe THEN <<>>
    ELSE IF category = None THEN rbe[entity_type].rules
    ELSE Get(rbe[entity_type].categories, category.v, <<>>)

RECURSIVE extend_by_category(_, _, _)
\* for category in categories: rules_to_evaluate.extend(get_rules_by_category(..))
extend_by_category(rbe, entity_type, categories) ==
    IF categories = <<>> THEN <<>>
    ELSE get_rules_by_category(rbe, entity_type, Name(Head(categories)))
         \o extend_by_category(rbe, entity_type, Tail(categories))

\* RuleEngine.evaluate_data of the category-indexed engine.
core_evaluate_data(rbe, data, entity_type, categories) ==
    IF entity_type \notin DOMAIN rbe THEN <<>>
    ELSE LET rules_to_evaluate ==
                 IF Truthy(categories)
                 THEN extend_by_category(rbe, entity_type, categories.v)
                 ELSE rbe[entity_type].rules
         IN  IF rules_to_evaluate = <<>> THEN <<>>
             ELSE evaluate_data(data, rules_to_evaluate, entity_type)

CoreRule(name, conditions) == [name |-> name, conditions |-> conditions]

\* What callers load: one rule, or two; R1 comes in two definitions.
CoreLoads ==
    { [entity_type |-> "device", category |-> c, rules |-> rs] :
        c \in {"a", "b"},
        rs \in { <<CoreRule("R1", VendorIs("C"))>>, <<CoreRule("R1", VendorIs("J"))>>,
                 <<CoreRule("R2", VendorIs("C"))>>,
                 <<CoreRule("R1", VendorIs("C")), CoreRule("R2", VendorIs("C"))>> } }
    \cup { [entity_type |-> "task", category |-> "a",
            rules |-> <<CoreRule("R1", VendorIs("C"))>>] }

CoreEvaluations ==
    { [entity_type |-> e, categories |-> cs] :
        e \in EntityTypes,
        cs \in { None, List(<<"a">>), List(<<"b">>), List(<<"a", "b">>) } }

InitCore ==
    /\ rules_by_entity = <<>>
    /\ last = [op |-> "none"]
    /\ AppIdle
    /\ EvalIdle
    /\ ConcIdle
    /\ HashIdle

\* engine.load_rules_from_json(json_str, entity_type, category)
LoadRulesFromJson ==
    /\ \E load \in CoreLoads :
          /\ rules_by_entity' = load_rules_from_json(rules_by_entity, load.rules,
                                                     load.entity_type, load.category)
          /\ last' = [op |-> "load_rules_from_json", load |-> load]
    /\ UNCHANGED <<rule_repository, ev_rules, ev_data, ev_results,
                   instance, repos, pc, svc, req, made, hash_order>>

\* RuleService.evaluate_data: engine.evaluate_data(data, entity_type, categories)
CoreEvaluateData ==
    /\ \E e \in CoreEvaluations :
          last' = [op |-> "evaluate_data", entity_type |-> e.entity_type,
                   categories |-> e.categories,
                   results |-> core_evaluate_data(rules_by_entity, AppData,
                                                  e.entity_type, e.categories)]
    /\ UNCHANGED <<rule_repository, rules_by_entity, ev_rules, ev_data, ev_results,
                   instance, repos, pc, svc, req, made, hash_order>>

\* Rule.model_dump(by_alias=True, exclude_none=True) of a rule sent with a
\* name and conditions: description is None and left out, add_to_categories
\* has its default.
api_rule_dump(rule) ==
    [name |-> rule.name, conditions |-> rule.conditions, add_to_categories |-> <<"default">>]

\* RuleEngine(): an engine of its own, with no rules.
new_rule_engine == <<>>

\* RuleService.evaluate_with_rules: the rules are loaded into a new engine
\* under the category "default" and the data is evaluated by that engine.
evaluate_with_rules(data, entity_type, rules) ==
    core_evaluate_data(
        load_rules_from_json(new_rule_engine, [i \in 1..Len(rules) |-> api_rule_dump(rules[i])],
                             entity_type, "default"),
        data, entity_type, None)

\* The names of the parameters of RuleService.evaluate_with_rules.
evaluate_with_rules_parameters == {"data", "entity_type", "rules"}

\* A call of evaluate_with_rules by keywords: TypeError for a keyword that
\* is no parameter.
call_evaluate_with_rules(keywords) ==
    IF DOMAIN keywords \subseteq evaluate_with_rules_parameters
    THEN [k |-> "ret",
          v |-> evaluate_with_rules(keywords.data, keywords.entity_type, keywords.rules)]
    ELSE Raise("RuleService.evaluate_with_rules() got an unexpected keyword argument '"
               \o (CHOOSE key \in DOMAIN keywords : key \notin evaluate_with_rules_parameters)
               \o "'")

\* The route POST /evaluate/with-rules: the results of the service, or 400
\* with the message of what was raised.
evaluate_with_rules_route(request) ==
    LET results == call_evaluate_with_rules(
                       [data |-> request.data, entity_type |-> request.entity_type,
                        api_rules |-> request.rules])
    IN  IF IsRaise(results)
        THEN [status |-> 400, detail |-> "Error evaluating data: " \o results.v]
        ELSE [status |-> 200, entity_type |-> request.entity_type,
              total_rules |-> Len(results.v), results |-> results.v]

\* Bodies of POST /evaluate/with-rules: R1 as stored or redefined, R3 that
\* is stored nowhere, two rules.
WithRulesRequests ==
    { [data |-> AppData, entity_type |-> e, rules |-> rs] :
        e \in EntityTypes,
        rs \in { <<CoreRule("R1", VendorIs("C"))>>, <<CoreRule("R3", VendorIs("J"))>>,
                 <<CoreRule("R1", VendorIs("J")), CoreRule("R2", VendorIs("C"))>> } }

\* service.evaluate_with_rules(data, entity_type, rules), called by position.
EvaluateWithRules ==
    /\ \E request \in WithRulesRequests :
          last' = [op |-> "evaluate_with_rules", request |-> request,
                   results |-> evaluate_with_rules(request.data, request.entity_type,
                                                   request.rules)]
    /\ UNCHANGED <<rule_repository, rules_by_entity, ev_rules, ev_data, ev_results,
                   instance, repos, pc, svc, req, made, hash_order>>

\* POST /evaluate/with-rules
PostEvaluateWithRules ==
    /\ \E request \in WithRulesRequests :
          last' = [op |-> "post_evaluate_with_rules", request |-> request,
                   response |-> evaluate_with_rules_route(request)]
    /\ UNCHANGED <<rule_repository, rules_by_entity, ev_rules, ev_data, ev_results,
                   instance, repos, pc, svc, req, made, hash_order>>

NextCore ==
    \/ LoadRulesFromJson
    \/ CoreEvaluateData
    \/ EvaluateWithRules
    \/ PostEvaluateWithRules

SpecCore == InitCore /\ [][NextCore]_vars

-----------------------------------------------------------------------------
(* Requests in parallel: SpecConc. The dependency get_rule_service is a    *)
(* plain function, which the framework runs on a worker thread, so the     *)
(* get_instance calls of two requests interleave statement by statement;   *)
(* the route handlers are coroutines without an await and run one at a     *)
(* time on the event loop.                                                 *)

MaxRequests == 2    \* requests in flight

Requests == 1..MaxRequests

Obj(id) == [k |-> "obj", v |-> id]

InitConc ==
    /\ instance = None
    /\ repos = <<>>
    /\ pc = [p \in Requests |-> "check"]
    /\ svc = [p \in Requests |-> None]
    /\ made = [p \in Requests |-> None]
    /\ req \in [Requests -> {<<"a">>, <<"b">>}]
    /\ last = [op |-> "none"]
    /\ AppIdle
    /\ CoreIdle
    /\ EvalIdle
    /\ HashIdle

\* get_instance: if cls._instance is None
Check(p) ==
    /\ pc[p] = "check"
    /\ pc' = [pc EXCEPT ![p] = IF instance = None THEN "construct" ELSE "return"]
    /\ UNCHANGED <<instance, repos, svc, req, made, last, rule_repository, rules_by_entity,
                   ev_rules, ev_data, ev_results, hash_order>>

\* get_instance: cls(), which runs __init__ and gives the new engine an empty repository
Construct(p) ==
    /\ pc[p] = "construct"
    /\ repos' = Append(repos, <<>>)
    /\ made' = [made EXCEPT ![p] = Obj(Len(repos) + 1)]
    /\ pc' = [pc EXCEPT ![p] = "assign"]
    /\ UNCHANGED <<instance, svc, req, last, rule_repository, rules_by_entity,
                   ev_rules, ev_data, ev_results, hash_order>>

\* get_instance: cls._instance = <the new engine>
Assign(p) ==
    /\ pc[p] = "assign"
    /\ instance' = made[p]
    /\ pc' = [pc EXCEPT ![p] = "return"]
    /\ UNCHANGED <<repos, svc, req, made, last, rule_repository, rules_by_entity,
                   ev_rules, ev_data, ev_results, hash_order>>

\* get_instance: return cls._instance, which RuleService.__init__ keeps
Return(p) ==
    /\ pc[p] = "return"
    /\ svc' = [svc EXCEPT ![p] = instance]
    /\ pc' = [pc EXCEPT ![p] = "handle"]
    /\ UNCHANGED <<instance, repos, req, made, last, rule_repository, rules_by_entity,
                   ev_rules, ev_data, ev_results, hash_order>>

\* The handler of POST /rules: an upsert of device rule R1 with the
\* categories of the request, on the engine its service holds.
Handle(p) ==
    /\ pc[p] = "handle"
    /\ \E repo \in spike_store_rules(repos[svc[p].v], "device",
                                     <<APIRule("R1", VendorIs("C"), req[p])>>).repos :
          repos' = [repos EXCEPT ![svc[p].v] = repo]
    /\ pc' = [pc EXCEPT ![p] = "done"]
    /\ UNCHANGED <<instance, svc, req, made, last, rule_repository, rules_by_entity,
                   ev_rules, ev_data, ev_results, hash_order>>

NextConc == \E p \in Requests : Check(p) \/ Construct(p) \/ Assign(p) \/ Return(p) \/ Handle(p)

SpecConc == InitConc /\ [][NextConc]_vars

-----------------------------------------------------------------------------
(* Entity types and names as callers choose them: SpecKeys. Neither the    *)
(* request models nor the engine restrict the characters of an entity type *)
(* or of a rule name, and the repository key joins the two with "|".       *)

KeyEntityTypes == {"a", "a|b"}

KeyNames == {"c", "b|c"}

\* The condition of a stored rule is whatever RuleCondition accepts: any
\* str is an operator to it.
KeyConditions == { VendorIs("C"), Leaf(VendorPath, "bogus", Str(<<"C">>)) }

InitKeys ==
    /\ rule_repository = <<>>
    /\ last = [op |-> "none"]
    /\ CoreIdle
    /\ EvalIdle
    /\ ConcIdle
    /\ HashIdle

\* RuleEngine.add_rule(rule, categories) for any entity type and name.
KeysAddRule ==
    /\ \E e \in KeyEntityTypes, n \in KeyNames, categories \in {None, SetOf({"x"})} :
          \E cl \in ListsOf(IF categories = None THEN {} ELSE categories.v) :
              /\ rule_repository' = add_rule(rule_repository, Rule(n, e, VendorIs("C")), cl)
              /\ last' = [op |-> "add_rule", rule |-> Rule(n, e, VendorIs("C")),
                          categories |-> categories]
    /\ UNCHANGED <<rules_by_entity, ev_rules, ev_data, ev_results, instance, repos, pc, svc, req, made, hash_order>>

\* POST /rules with one rule, for any entity type and name.
KeysStoreRules ==
    /\ \E e \in KeyEntityTypes, n \in KeyNames, cs \in {<<>>, <<"x">>}, c \in KeyConditions :
          LET request == [entity_type |-> e, rules |-> <<APIRule(n, c, cs)>>]
              out == spike_store_rules(rule_repository, e, request.rules)
          IN  /\ rule_repository' \in out.repos
              /\ last' = [op |-> "store_rules", request |-> request, response |-> out.response]
    /\ UNCHANGED <<rules_by_entity, ev_rules, ev_data, ev_results, instance, repos, pc, svc, req, made, hash_order>>

NextKeys ==
    \/ KeysAddRule
    \/ KeysStoreRules

SpecKeys == InitKeys /\ [][NextKeys]_vars

-----------------------------------------------------------------------------
(* Validation of a rule: the request model RuleCondition, Rule.model_dump, *)
(* RuleService.validate_rule. A JSON object is Dict(record of values),     *)
(* every str in it, path and operator too, a Str of characters.            *)

IsNone(x) == x.k = "null"

\* RuleCondition.validate_condition_structure on the keys of the JSON
\* object: "not" becomes not_, an object with no condition key becomes the
\* empty leaf, a non-list under all/any/none becomes [], an empty list is dropped.
validate_condition_structure(data) ==
    LET renamed == [k \in { IF key = "not" /\ "not_" \notin DOMAIN data THEN "not_" ELSE key
                            : key \in DOMAIN data } |->
                       IF k = "not_" /\ "not_" \notin DOMAIN data THEN data["not"] ELSE data[k]]
        typed == IF ~\E k \in {"path", "all", "any", "none", "not_"} : k \in DOMAIN renamed
                 THEN [path |-> None, operator |-> None, value |-> None]
                 ELSE renamed
        lists == {"all", "any", "none"} \cap DOMAIN typed
        kept == { k \in DOMAIN typed : ~(k \in lists /\ typed[k].k = "list" /\ typed[k].v = <<>>) }
    IN  [k \in kept |-> IF k \in lists /\ ~IsNone(typed[k]) /\ typed[k].k # "list"
                        THEN List(<<>>) ELSE typed[k]]

RECURSIVE RuleCondition(_)
\* The fields of the model built from what the validator left: a field not
\* given is None, the children are models themselves, other keys are ignored.
condition_fields(d) ==
    [k |-> "model", path |-> Get(d, "path", None), operator |-> Get(d, "operator", None),
     value |-> Get(d, "value", None),
     all |-> IF "all" \in DOMAIN d /\ ~IsNone(d.all)
             THEN List([i \in 1..Len(d.all.v) |-> RuleCondition(d.all.v[i])]) ELSE None,
     any |-> IF "any" \in DOMAIN d /\ ~IsNone(d.any)
             THEN List([i \in 1..Len(d.any.v) |-> RuleCondition(d.any.v[i])]) ELSE None,
     none |-> IF "none" \in DOMAIN d /\ ~IsNone(d.none)
              THEN List([i \in 1..Len(d.none.v) |-> RuleCondition(d.none.v[i])]) ELSE None,
     not_ |-> IF "not_" \in DOMAIN d /\ ~IsNone(d.not_) THEN RuleCondition(d.not_) ELSE None]

\* RuleCondition(**data) for a JSON object.
RuleCondition(data) == condition_fields(validate_condition_structure(data.v))

RECURSIVE condition_dump(_)
\* The children of a dumped model.
children_dump(xs) ==
    IF IsNone(xs) THEN None ELSE List([i \in 1..Len(xs.v) |-> condition_dump(xs.v[i])])

\* A RuleCondition inside a dumped model, by_alias: all seven keys, None
\* for the fields not set (what the serializer gives for a nested model).
condition_dump(c) ==
    Dict([path |-> c.path, operator |-> c.operator, value |-> c.value,
          all |-> children_dump(c.all), any |-> children_dump(c.any),
          none |-> children_dump(c.none)]
         @@ ("not" :> IF IsNone(c.not_) THEN None ELSE condition_dump(c.not_)))

\* {k: v for k, v in d.items() if v is not None}
without_none(d) == [k \in { key \in DOMAIN d : ~IsNone(d[key]) } |-> d[k]]

\* Rule.model_dump(by_alias=True): the keys of conditions whose value is
\* None are removed, at the top level only.
rule_model_dump(rule) ==
    [name |-> rule.name, conditions |-> Dict(without_none(condition_dump(rule.conditions).v))]

\* condition[key], a key the dict has with a value that is not None.
Present(condition, key) == key \in DOMAIN condition.v /\ ~IsNone(condition.v[key])

RECURSIVE _validate_condition(_)
RECURSIVE validate_each(_)
\* for sub_condition in xs: errors.extend(self._validate_condition(sub_condition))
validate_each(xs) ==
    IF xs = <<>> THEN <<>> ELSE _validate_condition(Head(xs)) \o validate_each(Tail(xs))

\* The errors of _validate_condition for the list under all, any or none.
list_errors(condition, key) ==
    IF ~Present(condition, key) THEN <<>>
    ELSE IF condition.v[key].k # "list" THEN <<"'" \o key \o "' must be a list of conditions">>
    ELSE IF condition.v[key].v = <<>>
         THEN <<"'" \o key \o "' must be a non-empty list of conditions">>
    ELSE validate_each(condition.v[key].v)

\* The errors of _validate_condition for the condition under not.
not_errors(condition) ==
    IF ~Present(condition, "not") THEN <<>>
    ELSE IF condition.v["not"].k # "dict" THEN <<"'not' must contain a valid condition object">>
    ELSE _validate_condition(condition.v["not"])

\* The errors of _validate_condition for a simple condition.
simple_errors(condition) ==
    IF ~Present(condition, "path") THEN <<>>
    ELSE IF "operator" \notin DOMAIN condition.v \/ ~Truthy(condition.v.operator)
         THEN <<"Simple condition must have an 'operator'">>
    ELSE IF ~PyEq(condition.v.operator, Str(<<"e", "x", "i", "s", "t", "s">>))
            /\ "value" \notin DOMAIN condition.v
         THEN <<"Simple condition must have a 'value' unless operator is 'exists'">>
    ELSE <<>>

\* RuleService._validate_condition: the list of errors.
_validate_condition(condition) ==
    IF IsNone(condition) \/ condition.k # "dict"
    THEN <<"Condition must be a valid object">>
    ELSE IF ~Present(condition, "path")
            /\ ~\E op \in {"all", "any", "none", "not"} : Present(condition, op)
    THEN <<"Condition must be either a simple condition with 'path' or a composite condition">>
    ELSE list_errors(condition, "all") \o list_errors(condition, "any")
         \o list_errors(condition, "none") \o not_errors(condition)
         \o simple_errors(condition)

\* The tuple validate_rule returns for the errors it collected.
validate_return(errors) ==
    [valid |-> Len(errors) = 0, errors |-> IF errors # <<>> THEN List(errors) ELSE None]

\* RuleService.validate_rule on the dumped rule; nothing in it raises for a
\* dump, so the except branch is never taken.
validate_rule_dict(dumped) ==
    validate_return(
        (IF "name" \notin DOMAIN dumped \/ dumped.name = ""
         THEN <<"Rule must have a name">> ELSE <<>>)
        \o (IF "conditions" \notin DOMAIN dumped \/ ~Truthy(dumped.conditions)
            THEN <<"Rule must have conditions">>
            ELSE _validate_condition(dumped.conditions)))

\* RuleService.validate_rule
validate_rule(rule) == validate_rule_dict(rule_model_dump(rule))

RECURSIVE super_model_dump(_, _)
\* The children of a model as the serializer of the library gives them.
super_children_dump(xs, by_alias) ==
    IF IsNone(xs) THEN None
    ELSE List([i \in 1..Len(xs.v) |-> super_model_dump(xs.v[i], by_alias)])

\* super().model_dump(**kwargs) of a RuleCondition: all seven fields, None
\* for those not set, the nested models by the same serializer; the field
\* not_ goes under its alias "not" with by_alias and under "not_" without.
super_model_dump(c, by_alias) ==
    Dict([path |-> c.path, operator |-> c.operator, value |-> c.value,
          all |-> super_children_dump(c.all, by_alias),
          any |-> super_children_dump(c.any, by_alias),
          none |-> super_children_dump(c.none, by_alias)]
         @@ ((IF by_alias THEN "not" ELSE "not_")
                :> IF IsNone(c.not_) THEN None ELSE super_model_dump(c.not_, by_alias)))

RECURSIVE clean_dict(_)
RECURSIVE clean_list(_)
\* cleaned_list of clean_dict: the cleaned items that are dicts and not empty.
clean_list(items) ==
    IF items = <<>> THEN <<>>
    ELSE (IF Head(items).k = "dict" /\ Truthy(clean_dict(Head(items)))
          THEN <<clean_dict(Head(items))>> ELSE <<>>)
         \o clean_list(Tail(items))

\* What clean_dict makes of one key of the dict without its None values:
\* the value, or NoCondition for a key it pops.
clean_key(result, key) ==
    IF key \in {"all", "any", "none"} /\ result[key].k = "list"
    THEN IF clean_list(result[key].v) # <<>> THEN List(clean_list(result[key].v))
         ELSE NoCondition
    ELSE IF key = "not" /\ result[key].k = "dict"
    THEN IF Truthy(clean_dict(result[key])) THEN clean_dict(result[key]) ELSE NoCondition
    ELSE result[key]

\* clean_dict of RuleCondition.model_dump; "not" is the one key it looks
\* for the negated condition under.
clean_dict(d) ==
    IF d.k # "dict" THEN d
    ELSE LET result == without_none(d.v)
             kept == { key \in DOMAIN result : clean_key(result, key) # NoCondition }
         IN  Dict([key \in kept |-> clean_key(result, key)])

\* RuleCondition.model_dump(by_alias=by_alias)
RuleCondition_model_dump(c, by_alias) == clean_dict(super_model_dump(c, by_alias))

\* The JSON leaves of the requests: complete, with a null value, without a
\* value, with exists, without an operator, with the value false, empty,
\* and without a path.
JsonLeaves ==
    { Dict([path |-> Str(VendorPath), operator |-> Str(<<"e", "q">>), value |-> Str(<<"C">>)]),
      Dict([path |-> Str(VendorPath), operator |-> Str(<<"e", "q">>), value |-> None]),
      Dict([path |-> Str(VendorPath), operator |-> Str(<<"e", "q">>)]),
      Dict([path |-> Str(VendorPath), operator |-> Str(<<"e", "x", "i", "s", "t", "s">>)]),
      Dict([path |-> Str(VendorPath)]),
      Dict([path |-> Str(VendorPath), operator |-> Str(<<"e", "q">>), value |-> Bool(FALSE)]),
      Dict(<<>>),
      Dict([operator |-> Str(<<"e", "q">>), value |-> Str(<<"C">>)]) }

\* The JSON conditions of the requests: a leaf, a composite over one or two
\* leaves, a not, an empty list and a str where a list belongs.
JsonConditions ==
    JsonLeaves
    \cup { Dict([all |-> List(<<x>>)]) : x \in JsonLeaves }
    \cup { Dict([any |-> List(<<x>>)]) : x \in JsonLeaves }
    \cup { Dict([none |-> List(<<x>>)]) : x \in JsonLeaves }
    \cup { Dict("not" :> x) : x \in JsonLeaves }
    \cup { Dict([all |-> List(<<x, y>>)]) : x \in JsonLeaves, y \in JsonLeaves }
    \cup { Dict([all |-> List(<<>>)]), Dict([any |-> Str(<<"x">>)]) }

InitValidate ==
    /\ last = [op |-> "none"]
    /\ AppIdle
    /\ CoreIdle
    /\ EvalIdle
    /\ ConcIdle
    /\ HashIdle

\* POST /rules/validate: the body becomes a Rule, validate_rule gives the response.
ValidateRule ==
    /\ \E conditions \in JsonConditions :
          last' = [op |-> "validate_rule", conditions |-> conditions,
                   response |-> validate_rule([name |-> "R1",
                                               conditions |-> RuleCondition(conditions)])]
    /\ UNCHANGED <<rule_repository, rules_by_entity, ev_rules, ev_data, ev_results,
                   instance, repos, pc, svc, req, made, hash_order>>

\* RuleCondition(**conditions).model_dump(by_alias=by_alias)
DumpCondition ==
    /\ \E conditions \in JsonConditions, by_alias \in BOOLEAN :
          last' = [op |-> "model_dump", conditions |-> conditions, by_alias |-> by_alias,
                   dumped |-> RuleCondition_model_dump(RuleCondition(conditions), by_alias)]
    /\ UNCHANGED <<rule_repository, rules_by_entity, ev_rules, ev_data, ev_results,
                   instance, repos, pc, svc, req, made, hash_order>>

NextValidate ==
    \/ ValidateRule
    \/ DumpCondition

SpecValidate == InitValidate /\ [][NextValidate]_vars

-----------------------------------------------------------------------------
(* The operators of the catalogue applied to pairs of JSON values *)

\* JSON values of every variant: null, a boolean, a number, strs (a digit, a
\* name of a role, a hostname), a list and an object.
JsonValues ==
    { None, Bool(TRUE), Num(2),
      Str(<<"2">>), Str(<<"p", "r", "i", "m", "a", "r", "y">>), Str(<<"a", "1", "0", "1">>),
      List(<<Num(2), Str(<<"2">>)>>), Dict([a |-> Num(0)]) }

InitOperators ==
    /\ last = [op |-> "none"]
    /\ AppIdle
    /\ CoreIdle
    /\ EvalIdle
    /\ ConcIdle
    /\ HashIdle

\* Operator.get_operator_function(name)(actual, expected) for a name of the catalogue.
ApplyOperator ==
    /\ \E name \in DOMAIN operators, actual \in JsonValues, expected \in JsonValues :
          last' = [op |-> "operator", name |-> name, actual |-> actual, expected |-> expected,
                   result |-> operator_func(get_operator_function(name).v, actual, expected)]
    /\ UNCHANGED <<rule_repository, rules_by_entity, ev_rules, ev_data, ev_results,
                   instance, repos, pc, svc, req, made, hash_order>>

NextOperators == ApplyOperator

SpecOperators == InitOperators /\ [][NextOperators]_vars

-----------------------------------------------------------------------------
(* Condition trees evaluated on one entity: SpecConditions *)

\* A leaf on a field no entity has.
AbsentIs ==
    Leaf(<<"$", ".", "d", "e", "v", "i", "c", "e", "s", "[", "*", "]", ".", "m">>, "equal",
         Str(<<"C">>))

\* A leaf whose operator is not in the catalogue: evaluating it raises.
BogusLeaf == Leaf(VendorPath, "bogus", Str(<<"C">>))

\* The leaves and the composites without children.
BaseConditions ==
    { VendorIs("C"), VendorIs("J"), AbsentIs,
      Dict([all |-> List(<<>>)]), Dict([any |-> List(<<>>)]), Dict([none |-> List(<<>>)]) }

\* The composites with one or two children from S, and the negations.
CompositesOver(S) ==
    LET children == SeqsUpTo(S, 2) \ {<<>>}
    IN  { Dict([all |-> List(xs)]) : xs \in children }
        \cup { Dict([any |-> List(xs)]) : xs \in children }
        \cup { Dict([none |-> List(xs)]) : xs \in children }
        \cup { Dict([not |-> x]) : x \in S }

\* Trees of depth up to three, and a few with the leaf that raises.
ConditionTrees ==
    BaseConditions
    \cup CompositesOver(BaseConditions)
    \cup { Dict([all |-> List(<<x>>)]) : x \in CompositesOver(BaseConditions) }
    \cup { Dict([any |-> List(<<x>>)]) : x \in CompositesOver(BaseConditions) }
    \cup { Dict([none |-> List(<<x>>)]) : x \in CompositesOver(BaseConditions) }
    \cup { Dict([not |-> x]) : x \in CompositesOver(BaseConditions) }
    \cup { BogusLeaf, Dict([any |-> List(<<VendorIs("C"), BogusLeaf>>)]),
           Dict([any |-> List(<<BogusLeaf, VendorIs("C")>>)]),
           Dict([all |-> List(<<VendorIs("J"), BogusLeaf>>)]) }

InitConditions ==
    /\ last = [op |-> "none"]
    /\ AppIdle
    /\ CoreIdle
    /\ EvalIdle
    /\ ConcIdle
    /\ HashIdle

\* ConditionFactory.create_condition(tree).evaluate_with_details(entity)
EvaluateWithDetails ==
    /\ \E tree \in ConditionTrees, entity \in EvalEntities :
          last' = [op |-> "evaluate_with_details", tree |-> tree, entity |-> entity,
                   result |-> evaluate_with_details(create_condition(tree), entity)]
    /\ UNCHANGED <<rule_repository, rules_by_entity, ev_rules, ev_data, ev_results,
                   instance, repos, pc, svc, req, made, hash_order>>

NextConditions == EvaluateWithDetails

SpecConditions == InitConditions /\ [][NextConditions]_vars

-----------------------------------------------------------------------------
(* PathUtils applied to paths and entities: SpecPaths *)

\* Field names of one character and the forms of an index after them.
PathNames == { <<"v">>, <<"c">>, <<"i">>, <<"n">> }

IndexForms == { <<>>, <<"[", "0", "]">>, <<"[", "1", "]">>, <<"[", "*", "]">> }

PathSegments == { name \o index : name \in PathNames, index \in IndexForms }

\* The empty path and the paths of one or two segments.
EntityPaths ==
    { <<>> } \cup PathSegments
    \cup { p \o <<".">> \o q : p \in PathSegments, q \in PathSegments }

\* The same with and without "$." in front, and two paths of three segments.
RulePaths ==
    LET paths == (EntityPaths \ { <<>> })
                 \cup { <<"i", "[", "*", "]", ".", "c", ".", "v">>,
                        <<"c", ".", "i", "[", "0", "]", ".", "v">> }
    IN  paths \cup { <<"$", ".">> \o p : p \in paths }

\* An entity with a string, a mapping, a list of mappings and a number, and
\* one with a null, an empty list and a list of numbers.
PathEntities ==
    { Dict([v |-> Str(<<"a", "b">>),
            c |-> Dict([v |-> Str(<<"1">>), i |-> List(<<Str(<<"r">>)>>)]),
            i |-> List(<<Dict([n |-> Str(<<"e">>)])>>),
            n |-> Num(5)]),
      Dict([c |-> None, i |-> List(<<>>), n |-> List(<<Num(5)>>)]) }

InitPaths ==
    /\ last = [op |-> "none"]
    /\ AppIdle
    /\ CoreIdle
    /\ EvalIdle
    /\ ConcIdle
    /\ HashIdle

\* PathUtils.simplify_path(path)
SimplifyPath ==
    /\ \E path \in RulePaths :
          last' = [op |-> "simplify_path", path |-> path, result |-> simplify_path(path)]
    /\ UNCHANGED <<rule_repository, rules_by_entity, ev_rules, ev_data, ev_results,
                   instance, repos, pc, svc, req, made, hash_order>>

\* PathUtils.get_value_from_path(entity, path)
GetValueFromPath ==
    /\ \E entity \in PathEntities, path \in EntityPaths :
          last' = [op |-> "get_value_from_path", entity |-> entity, path |-> path,
                   result |-> get_value_from_path(entity, path)]
    /\ UNCHANGED <<rule_repository, rules_by_entity, ev_rules, ev_data, ev_results,
                   instance, repos, pc, svc, req, made, hash_order>>

NextPaths ==
    \/ SimplifyPath
    \/ GetValueFromPath

SpecPaths == InitPaths /\ [][NextPaths]_vars

-----------------------------------------------------------------------------
(* The two extractions of the entity list from a document: SpecExtract *)

\* An entity type and the same with an s at its end.
ExtractEntityTypes == { "device", "devices" }

ExtractKeys == { "device", "devices", "devicess" }

\* What a document holds at a key: one of two lists, or a string.
ExtractValues ==
    { List(<<Dict([vendor |-> Str(<<"C">>)])>>), List(<<Dict([vendor |-> Str(<<"J">>)])>>),
      Str(<<"x">>) }

\* The documents with any of the keys.
ExtractDocuments == UNION { [K -> ExtractValues] : K \in SUBSET ExtractKeys }

InitExtract ==
    /\ last = [op |-> "none"]
    /\ AppIdle
    /\ CoreIdle
    /\ EvalIdle
    /\ ConcIdle
    /\ HashIdle

\* PathUtils.extract_entity_list(data, entity_type), as the evaluator calls it.
ExtractEntityList ==
    /\ \E data \in ExtractDocuments, entity_type \in ExtractEntityTypes :
          last' = [op |-> "extract_entity_list", data |-> data, entity_type |-> entity_type,
                   result |-> extract_entity_list(data, entity_type)]
    /\ UNCHANGED <<rule_repository, rules_by_entity, ev_rules, ev_data, ev_results,
                   instance, repos, pc, svc, req, made, hash_order>>

\* _extract_entities(data, entity_type), as the by-data route calls it.
ExtractEntities ==
    /\ \E data \in ExtractDocuments, entity_type \in ExtractEntityTypes :
          last' = [op |-> "_extract_entities", data |-> data, entity_type |-> entity_type,
                   result |-> _extract_entities(data, entity_type)]
    /\ UNCHANGED <<rule_repository, rules_by_entity, ev_rules, ev_data, ev_results,
                   instance, repos, pc, svc, req, made, hash_order>>

NextExtract ==
    \/ ExtractEntityList
    \/ ExtractEntities

SpecExtract == InitExtract /\ [][NextExtract]_vars

-----------------------------------------------------------------------------
(* Properties of the repository and of the requests on it *)

\* The (entity_type, name) pairs a write request adds a rule under.
AddedKeys(l) ==
    IF l.op = "add_rule" THEN { <<l.rule.entity_type, l.rule.name>> }
    ELSE { <<l.request.entity_type, l.request.rules[i].name>> : i \in 1..Len(l.request.rules) }

\* The categories the caller supplied for a pair.
SuppliedCategories(l, name) ==
    IF l.op = "add_rule" THEN (IF l.categories = None THEN {} ELSE l.categories.v)
    ELSE UNION { Range(l.request.rules[i].add_to_categories) :
                   i \in { j \in 1..Len(l.request.rules) : l.request.rules[j].name = name } }

\* The definition the caller supplied last for a pair.
SuppliedConditions(l, name) ==
    IF l.op = "add_rule" THEN l.rule.conditions
    ELSE LET is == { j \in 1..Len(l.request.rules) : l.request.rules[j].name = name }
         IN  l.request.rules[CHOOSE i \in is : \A j \in is : j <= i].conditions

CategorySet(repo, key) == IF HasKey(repo, key) THEN Range(Lookup(repo, key).categories) ELSE {}

\* C1: whenever a rule is added (by a store request or by add_rule) under a
\* key, the stored rule afterwards carries the supplied definition and its
\* category set is the set it had before (empty when the key was absent)
\* united with the supplied categories.
C1_UpsertMerges ==
    [][last'.op \in {"store_rules", "add_rule"} =>
          \A p \in AddedKeys(last') :
              LET key == stored_rule_key(p[1], p[2])
              IN  /\ HasKey(rule_repository', key)
                  /\ Lookup(rule_repository', key).rule.conditions
                         = SuppliedConditions(last', p[2])
                  /\ CategorySet(rule_repository', key)
                         = CategorySet(rule_repository, key) \cup SuppliedCategories(last', p[2])]_vars

\* The names of a request that resolve to a stored rule of the entity type.
ResolvedNames(request) ==
    { n \in Range(request.rule_names.v) : rule_exists(rule_repository, n, request.entity_type) }

\* C4: an evaluation by rule_names succeeds whether or not all names
\* resolve, and returns exactly one RuleResult for every name that resolves.
C4_UnresolvedNamesDropped ==
    last.op = "evaluate" /\ Truthy(last.request.rule_names) =>
        /\ last.response.status = 200
        /\ \A n \in ResolvedNames(last.request) :
              Cardinality({ i \in 1..Len(last.response.results) :
                              last.response.results[i].rule_name = n }) = 1
        /\ \A i \in 1..Len(last.response.results) :
              last.response.results[i].rule_name \in ResolvedNames(last.request)

Matches(r, entity_type, categories) ==
    /\ entity_type # None => r.entity_type = entity_type.v
    /\ categories # None => Range(categories.v) \cap Range(r.categories) # {}

\* C6: get_stored_rules(entity_type, categories) returns exactly the stored
\* rules that match the filters given (an absent filter matches every rule),
\* each once, none omitted and none besides.
C6_GetStoredRulesExact ==
    last.op = "get_stored_rules" =>
        /\ Range(last.result)
               = { r \in Range(Values(rule_repository)) :
                       Matches(r, last.entity_type, last.categories) }
        /\ Cardinality(Range(last.result)) = Len(last.result)

\* Both filters given, three rules stored, one of them returned.
C6_Witness ==
    /\ last.op = "get_stored_rules"
    /\ last.entity_type = Name("device")
    /\ last.categories = List(<<"a">>)
    /\ Len(rule_repository) = 3
    /\ Len(last.result) = 1
    /\ \E i \in 1..3 : /\ rule_repository[i].value.entity_type = "task"
                       /\ "a" \in Range(rule_repository[i].value.categories)

\* The rule names in the order the selection of the request gives them.
SelectionOrder(request) ==
    IF Truthy(request.rule_names) THEN request.rule_names.v
    ELSE LET selected == get_stored_rules(rule_repository, Name(request.entity_type),
                             IF Truthy(request.categories) THEN request.categories ELSE None)
         IN  [i \in 1..Len(selected) |-> selected[i].rule_name]

\* C8: the RuleResults of an evaluation come in the order of rule_names, or
\* in repository insertion order for a category or entity-type selection.
C8_ResultsInSelectionOrder ==
    last.op = "evaluate" /\ last.response.status = 200 =>
        [i \in 1..Len(last.response.results) |-> last.response.results[i].rule_name]
            = SelectionOrder(last.request)

-----------------------------------------------------------------------------
(* Properties of the evaluator *)

\* The rule has a condition tree that evaluates on every entity without raising.
TreeEvaluates(rule, entities) ==
    /\ "conditions" \in DOMAIN rule
    /\ "t" \in DOMAIN create_condition(rule.conditions)
    /\ create_condition(rule.conditions) # NoCondition
    /\ \A i \in 1..Len(entities) :
          ~IsRaise(evaluate_with_details(create_condition(rule.conditions), entities[i]))

\* The sub-list of the entities, in input order, on which the tree is not ok.
NotOkEntities(rule, entities) ==
    LET NotOk(e) == ~evaluate_with_details(create_condition(rule.conditions), e).success
    IN  SelectSeq(entities, NotOk)

\* C7: for each evaluated rule, failing_elements is exactly the sub-list of
\* the input entities, in input order, on which the rule's condition tree
\* evaluates to not-ok, and success is true iff that list is empty.
C7_FailingElementsExact ==
    ev_results.called =>
        LET entities == extract_entity_list(ev_data, "device")
        IN  \A i \in 1..Len(ev_results.results) :
                TreeEvaluates(ev_rules[i], entities) =>
                    /\ ev_results.results[i].failing_elements
                           = NotOkEntities(ev_rules[i], entities)
                    /\ ev_results.results[i].success
                           <=> (NotOkEntities(ev_rules[i], entities) = <<>>)

\* C9: a rule whose evaluation raises yields one RuleResult with
\* success=false, a message carrying the exception text and a single
\* FailureInfo of kind 'error'; every other rule of the call yields the
\* RuleResult it yields when evaluated alone, and no result is missing.
C9_ErrorIsolated ==
    ev_results.called /\ extract_entity_list(ev_data, "device") # <<>> =>
        LET entities == extract_entity_list(ev_data, "device")
            results == ev_results.results
        IN  /\ Len(results) = Len(ev_rules)
            /\ \A i \in 1..Len(results) :
                  LET r == evaluate_rule_for_entities(entities, ev_rules[i])
                  IN  IF IsRaise(r)
                      THEN /\ results[i].rule_name = Get(ev_rules[i], "name", "Unnamed Rule")
                           /\ ~results[i].success
                           /\ results[i].message = "Error evaluating rule: " \o r.v
                           /\ results[i].failing_elements = <<>>
                           /\ Len(results[i].failure_details) = 1
                           /\ results[i].failure_details[1].operator = "error"
                           /\ results[i].failure_details[1].path = r.v
                      ELSE results[i] = evaluate_one_rule(entities, ev_rules[i])

\* A call in which one rule raised and a rule after it passed.
C9_Witness ==
    /\ ev_results.called
    /\ Len(ev_results.results) = 2
    /\ ev_results.results[1].failure_details # <<>>
    /\ ev_results.results[1].failure_details[1].operator = "error"
    /\ ev_results.results[1].message = "Error evaluating rule: Unsupported operator: bogus"
    /\ ev_results.results[2].success

-----------------------------------------------------------------------------
(* Properties of the category-indexed engine and of parallel requests *)

\* The names in the list of a category of an entity type.
NamesIn(entity_type, category) ==
    { r.name : r \in Range(get_rules_by_category(rules_by_entity, entity_type, Name(category))) }

\* C3: an evaluation with categories gives exactly one RuleResult for each
\* stored rule of the entity type that is in one of the categories, however
\* many of them it is in, and none for any other rule.
C3_OneResultPerSelectedRule ==
    last.op = "evaluate_data" /\ Truthy(last.categories)
        /\ last.entity_type \in DOMAIN rules_by_entity =>
        LET stored == Range(rules_by_entity[last.entity_type].rules)
            selected == { r.name : r \in { q \in stored :
                             \E c \in Range(last.categories.v) :
                                 q.name \in NamesIn(last.entity_type, c) } }
        IN  /\ \A n \in selected :
                  Cardinality({ i \in 1..Len(last.results) : last.results[i].rule_name = n }) = 1
            /\ \A i \in 1..Len(last.results) : last.results[i].rule_name \in selected

\* C2: when parallel upserts of one key have all been served, the rule in
\* the shared repository carries the categories of every one of them.
C2_NoLostUpdate ==
    (\A p \in Requests : pc[p] = "done") =>
        /\ HasKey(repos[instance.v], "device|R1")
        /\ \A p \in Requests : Range(req[p]) \subseteq CategorySet(repos[instance.v], "device|R1")

-----------------------------------------------------------------------------
(* Properties of category updates *)

\* C11: remove_categories on an existing rule leaves it with its old
\* categories less the removed ones; the rule stays stored, also with no
\* category left, and the same call applied again changes nothing.
C11_RemoveCategoriesDifference ==
    [][/\ last'.op = "update_rule_categories"
       /\ last'.request.category_action = "remove"
       /\ rule_exists(rule_repository, last'.request.rule_name, last'.request.entity_type)
       => LET key == stored_rule_key(last'.request.entity_type, last'.request.rule_name)
              again == update_rule_categories(rule_repository', last'.request.rule_name,
                           last'.request.entity_type, last'.request.categories, "remove")
          IN  /\ last'.response.success
              /\ HasKey(rule_repository', key)
              /\ CategorySet(rule_repository', key)
                     = CategorySet(rule_repository, key) \ Range(last'.request.categories)
              /\ \A repo \in again.repos :
                     CategorySet(repo, key) = CategorySet(rule_repository', key)]_vars

\* The message of an update refused because the rule is not stored.
NotFoundMessage(request) ==
    "Error updating rule categories: Rule with name '" \o request.rule_name
    \o "' not found for entity type '" \o request.entity_type \o "'"

\* C12: an add or a remove of categories addressed to a key with no stored
\* rule reports failure with the not-found error and leaves the repository
\* as it was.
C12_AbsentRuleRefused ==
    [][/\ last'.op = "update_rule_categories"
       /\ ~rule_exists(rule_repository, last'.request.rule_name, last'.request.entity_type)
       => /\ ~last'.response.success
          /\ last'.response.message = NotFoundMessage(last'.request)
          /\ rule_repository' = rule_repository]_vars

\* C13: update_rule_categories with an action other than add and remove
\* returns failure, not the success message, and leaves the repository as
\* it was.
C13_InvalidActionRefused ==
    [][/\ last'.op = "update_rule_categories"
       /\ last'.request.category_action \notin {"add", "remove"}
       => /\ ~last'.response.success
          /\ last'.response.message # updated_message(last'.request.rule_name,
                                          last'.request.entity_type, last'.request.categories)
          /\ rule_repository' = rule_repository]_vars

-----------------------------------------------------------------------------
(* Properties of the repository's keys *)

\* The (entity_type, name) pair of a stored rule.
PairOf(stored_rule) == <<stored_rule.entity_type, stored_rule.rule_name>>

\* The pairs a store request or an add_rule call adds.
AddedPairs(l) ==
    IF l.op = "add_rule" THEN { <<l.rule.entity_type, l.rule.name>> }
    ELSE IF l.op = "store_rules"
    THEN { <<l.request.entity_type, l.request.rules[i].name>> : i \in 1..Len(l.request.rules) }
    ELSE {}

\* C14: after every add, each pair that was added now or stored before has
\* exactly one stored rule, and the stored rule of every pair other than the
\* added ones is the one that was there before.
C14_OneRulePerPair ==
    [][LET before == Range(Values(rule_repository))
           after == Range(Values(rule_repository'))
           added == AddedPairs(last')
       IN  /\ \A pair \in added \cup { PairOf(v) : v \in before } :
                  Cardinality({ i \in 1..Len(rule_repository') :
                                  PairOf(rule_repository'[i].value) = pair }) = 1
           /\ added # {} => \A v \in before : PairOf(v) \notin added => v \in after]_vars

-----------------------------------------------------------------------------
(* Properties of condition trees *)

RECURSIVE ValidTree(_)
\* A valid condition tree: an all, any or none with at least one child, all
\* of them valid; a not over a valid tree; or a leaf with a non-empty path,
\* an operator of the catalogue, and a value unless the operator is exists.
ValidTree(c) ==
    /\ c.k = "dict"
    /\ IF \E key \in {"all", "any", "none"} : key \in DOMAIN c.v
       THEN \A key \in {"all", "any", "none"} \cap DOMAIN c.v :
                /\ c.v[key].k = "list"
                /\ c.v[key].v # <<>>
                /\ \A i \in 1..Len(c.v[key].v) : ValidTree(c.v[key].v[i])
       ELSE IF "not" \in DOMAIN c.v THEN ValidTree(c.v["not"])
       ELSE /\ "path" \in DOMAIN c.v
            /\ c.v.path # <<>>
            /\ "operator" \in DOMAIN c.v
            /\ c.v.operator \in DOMAIN operators
            /\ (c.v.operator = "exists" \/ "value" \in DOMAIN c.v)

\* C15: every stored rule has a valid condition tree.
C15_StoredTreesValid ==
    \A i \in 1..Len(rule_repository) : ValidTree(rule_repository[i].value.rule.conditions)

RECURSIVE RecursivelyValid(_)
\* A JSON condition that is present and recursively valid: it is a leaf or a
\* composite; every all, any and none is a non-empty list of valid
\* conditions; not holds a valid condition object; a leaf has an operator
\* and, unless the operator is exists, a value, null and false included.
RecursivelyValid(c) ==
    /\ c.k = "dict"
    /\ \E key \in {"path", "all", "any", "none", "not"} : key \in DOMAIN c.v
    /\ \A key \in {"all", "any", "none"} \cap DOMAIN c.v :
           /\ c.v[key].k = "list"
           /\ c.v[key].v # <<>>
           /\ \A i \in 1..Len(c.v[key].v) : RecursivelyValid(c.v[key].v[i])
    /\ "not" \in DOMAIN c.v => RecursivelyValid(c.v["not"])
    /\ "path" \in DOMAIN c.v =>
           /\ "operator" \in DOMAIN c.v
           /\ Truthy(c.v.operator)
           /\ (c.v.operator = Str(<<"e", "x", "i", "s", "t", "s">>) \/ "value" \in DOMAIN c.v)

\* C16: validate returns valid exactly for a rule whose condition tree is
\* present and recursively valid, with no errors then and with a non-empty
\* list of errors otherwise.
C16_ValidIffTreeValid ==
    last.op = "validate_rule" =>
        /\ last.response.valid = RecursivelyValid(last.conditions)
        /\ last.response.valid => IsNone(last.response.errors)
        /\ ~last.response.valid => last.response.errors.k = "list" /\ last.response.errors.v # <<>>

\* An operand whose type the operator does not support: a comparison of
\* what float() does not take, a pattern or a subject that is no str, a
\* needle that is no str for a str, a subject of contains that is neither
\* str nor list, a list operator without a list, a role or a hostname that
\* is no str, a length of what has none or against what is no number (a
\* boolean is a number to Python).
Mismatched(f, actual, expected) ==
    CASE f \in {"greater_than", "less_than", "greater_than_equal", "less_than_equal"} ->
            ~(FloatOk(actual) /\ FloatOk(expected))
      [] f = "match" -> actual.k # "str" \/ expected.k # "str"
      [] f = "contains" -> \/ actual.k \notin {"str", "list"}
                           \/ (actual.k = "str" /\ expected.k # "str")
      [] f = "in_list" -> expected.k # "list"
      [] f = "role_device" -> actual.k # "str" \/ expected.k # "str"
      [] f \in {"max_length", "exact_length"} ->
            actual.k \notin {"str", "list", "dict"} \/ expected.k \notin {"num", "bool"}
      [] OTHER -> FALSE

\* C17: every operator of the catalogue returns a boolean for every pair of
\* JSON values, never raises, and returns false for an operand of an
\* unsupported or mismatched type.
C17_OperatorsTotal ==
    last.op = "operator" =>
        /\ last.result.k = "bool"
        /\ Mismatched(operators[last.name], last.actual, last.expected) => ~last.result.v

\* The results of the supplied rules alone: the general list of an engine
\* that holds these rules and no other, evaluated on the data.
SuppliedRulesResults(request) ==
    evaluate_data(request.data,
                  [i \in 1..Len(request.rules) |->
                      api_rule_dump(request.rules[i]) @@ ("category" :> "default")],
                  request.entity_type)

\* C18: an evaluation with supplied rules, by the service or by the route,
\* leaves both shared repositories as they were and gives the results of the
\* supplied rules and of no stored rule.
C18_SuppliedRulesOnly ==
    [][/\ last'.op \in {"evaluate_with_rules", "post_evaluate_with_rules"} =>
              /\ rules_by_entity' = rules_by_entity
              /\ rule_repository' = rule_repository
       /\ last'.op = "evaluate_with_rules" =>
              last'.results = SuppliedRulesResults(last'.request)
       /\ last'.op = "post_evaluate_with_rules" =>
              /\ last'.response.status = 200
              /\ last'.response.results = SuppliedRulesResults(last'.request)]_vars

\* The names of the results that satisfy a test, in the order of the results.
NamesWhere(results, Test(_)) ==
    LET chosen == SelectSeq(results, Test)
    IN  [i \in 1..Len(chosen) |-> chosen[i].rule_name]

\* The names of the rules whose overall result is a success.
PassedNames(results) ==
    LET passed(result) == result.success
    IN  NamesWhere(results, passed)

\* The names of the rules that failed and whose failing elements hold an
\* entity equal to this one.
FailedNamesFor(results, entity) ==
    LET failed(result) ==
            /\ ~result.success
            /\ \E i \in 1..Len(result.failing_elements) : result.failing_elements[i] = entity
    IN  NamesWhere(results, failed)

\* What the claim asks of the items for one list of overall results.
ItemsAsClaimed(items, results) ==
    \A i \in 1..Len(items) :
        /\ items[i].rules_passed = PassedNames(results)
        /\ [j \in 1..Len(items[i].rules_failed) |-> items[i].rules_failed[j].rule_name]
               = FailedNamesFor(results, items[i].data)

\* C19: in a by-item response, every entity's rules_passed is the names of
\* the rules whose overall result is a success and its rules_failed is the
\* names of the failed rules whose failing elements hold that entity, for
\* the overall results of the request on the repository.
C19_ByItemPassedFailed ==
    (last.op = "evaluate_by_data" /\ last.response.status = 200
        /\ last.response.results # <<>>) =>
        \E results \in service_evaluate_data_with_criteria(
                           rule_repository, last.request.data, last.request.entity_type,
                           last.request.categories, last.request.rule_names).v :
            ItemsAsClaimed(last.response.results, results)

RECURSIVE Cleaned(_)
\* A serialised condition with, at every depth, no key whose value is null,
\* no empty all, any or none and no negation without a body.
Cleaned(d) ==
    /\ \A key \in DOMAIN d.v : ~IsNone(d.v[key])
    /\ \A key \in {"all", "any", "none"} \cap DOMAIN d.v :
           d.v[key].k = "list" =>
               /\ d.v[key].v # <<>>
               /\ \A i \in 1..Len(d.v[key].v) : Cleaned(d.v[key].v[i])
    /\ \A key \in {"not", "not_"} \cap DOMAIN d.v :
           d.v[key].k = "dict" /\ Truthy(d.v[key]) /\ Cleaned(d.v[key])

\* C21: a condition serialised by RuleCondition.model_dump is cleaned at
\* every depth, and parsing it and serialising it again gives the same value.
C21_SerialisedClean ==
    last.op = "model_dump" =>
        /\ Cleaned(last.dumped)
        /\ RuleCondition_model_dump(RuleCondition(last.dumped), last.by_alias) = last.dumped

-----------------------------------------------------------------------------
(* Properties of get_instance *)

\* C22: every request is handed the same engine by get_instance, and the
\* rule a served request stored is in the repository of every request that
\* holds an engine.
C22_OneSharedInstance ==
    \A p, q \in Requests :
        (svc[p] # None /\ svc[q] # None) =>
            /\ svc[p] = svc[q]
            /\ pc[p] = "done" => HasKey(repos[svc[q].v], "device|R1")

-----------------------------------------------------------------------------
(* Properties of the condition tree *)

\* The outcome of a leaf on an entity; a leaf that raises has none and
\* counts as not ok.
LeafOk(tree, entity) ==
    LET r == value_evaluate_with_details(create_condition(tree), entity)
    IN  ~IsRaise(r) /\ r.success

RECURSIVE Reference(_, _)
\* The reference boolean semantics of a tree over the outcomes of its
\* leaves: all is the conjunction, any the disjunction, none the negated
\* disjunction, not the negation.
Reference(tree, entity) ==
    IF "all" \in DOMAIN tree.v
    THEN \A i \in 1..Len(tree.v.all.v) : Reference(tree.v.all.v[i], entity)
    ELSE IF "any" \in DOMAIN tree.v
    THEN \E i \in 1..Len(tree.v.any.v) : Reference(tree.v.any.v[i], entity)
    ELSE IF "none" \in DOMAIN tree.v
    THEN ~\E i \in 1..Len(tree.v.none.v) : Reference(tree.v.none.v[i], entity)
    ELSE IF "not" \in DOMAIN tree.v
    THEN ~Reference(tree.v["not"], entity)
    ELSE LeafOk(tree, entity)

\* C23: the boolean evaluate_with_details returns for a tree and an entity
\* is the value of the reference semantics over the outcomes of the leaves.
C23_BooleanSemantics ==
    (last.op = "evaluate_with_details" /\ ~IsRaise(last.result)) =>
        last.result.success = Reference(last.tree, last.entity)

\* What each child of a node returns on the entity, in child order.
ChildResults(children, entity) ==
    [i \in 1..Len(children) |-> evaluate_with_details(create_condition(children[i]), entity)]

RECURSIVE ConcatFailures(_)
\* The failures of the results, one after the other.
ConcatFailures(rs) ==
    IF rs = <<>> THEN <<>> ELSE Head(rs).failures \o ConcatFailures(Tail(rs))

AnyAsClaimed(rs, result) ==
    /\ \A i \in 1..Len(rs) :
          ((~IsRaise(rs[i]) /\ rs[i].success)
              /\ \A j \in 1..(i - 1) : ~IsRaise(rs[j]) /\ ~rs[j].success)
          => result = Ret(TRUE, <<>>)
    /\ (\A i \in 1..Len(rs) : ~IsRaise(rs[i]) /\ ~rs[i].success)
          => result = Ret(FALSE, ConcatFailures(rs))

C24_WitnessConcatenation ==
    /\ last.op = "evaluate_with_details"
    /\ last.tree = Dict([any |-> List(<<VendorIs("J"), AbsentIs>>)])
    /\ last.entity = Dict([vendor |-> Str(<<"C">>)])
    /\ Len(last.result.failures) = 2

\* A tree that is a leaf.
IsLeaf(tree) == "path" \in DOMAIN tree.v

\* C25: a leaf that fails on an entity emits exactly one FailureInfo, with
\* the path as the leaf has it (not normalised), the leaf's operator and
\* expected value, and as actual value what the resolver returned for the
\* entity; a leaf that passes emits none.
C25_LeafFailureInfo ==
    (last.op = "evaluate_with_details" /\ IsLeaf(last.tree) /\ ~IsRaise(last.result)) =>
        IF last.result.success
        THEN last.result.failures = <<>>
        ELSE last.result.failures =
                <<[operator |-> last.tree.v.operator,
                   path |-> ToStr(last.tree.v.path),
                   expected_value |-> last.tree.v.value,
                   actual_value |->
                       get_value_from_path(last.entity, simplify_path(last.tree.v.path))]>>

\* A leaf on a field the entity does not have has failed, with the path as
\* written and a null actual value.
C25_Witness ==
    /\ last.op = "evaluate_with_details"
    /\ last.tree = AbsentIs
    /\ ~last.result.success
    /\ Len(last.result.failures) = 1
    /\ last.result.failures[1].path = "$.devices[*].m"
    /\ last.result.failures[1].actual_value = None

-----------------------------------------------------------------------------
(* Properties of the path resolver *)

RECURSIVE Addressed(_, _)
\* The value the segments address from current: an indexed segment needs a
\* mapping with the field, an integer index and a sequence that has it; a
\* plain segment needs a mapping with the field; anything else is null.
Addressed(current, parts) ==
    IF parts = <<>> THEN current
    ELSE LET part == Head(parts)
             field == ToStr(Split(part, "[")[1])
         IN  IF current.k # "dict" \/ field \notin DOMAIN current.v THEN None
             ELSE IF ~HasChar(part, "[") THEN Addressed(current.v[field], Tail(parts))
             ELSE LET index_part == Split(Split(part, "[")[2], "]")[1]
                      arr == current.v[field]
                  IN  IF IsInt(index_part) /\ arr.k = "list" /\ IntOf(index_part) < Len(arr.v)
                      THEN Addressed(arr.v[IntOf(index_part) + 1], Tail(parts))
                      ELSE None

\* C26: get_value_from_path never raises; it returns the addressed value, or
\* null when a field is missing, an index is out of range or no integer, the
\* indexed value is no sequence, or the value descended into is no mapping.
C26_ResolverTotal ==
    last.op = "get_value_from_path" =>
        /\ ~IsRaise(last.result)
        /\ last.result = Addressed(last.entity, Split(last.path, "."))

\* The path without a leading "$.".
Stripped(path) ==
    IF StartsWith(path, <<"$", ".">>) THEN SubSeq(path, 3, Len(path)) ELSE path

\* The first segment of the stripped path holds a bracket expression.
FirstHasBracket(path) ==
    LET first == Split(Stripped(path), ".")[1]
    IN  HasChar(first, "[") /\ HasChar(first, "]")

\* The stripped path after its first segment and the dot behind it.
AfterFirst(path) ==
    LET first == Split(Stripped(path), ".")[1]
    IN  SubSeq(Stripped(path), Len(first) + 2, Len(Stripped(path)))

\* C27 as stated: simplify_path removes a leading "$." and then drops the
\* first segment exactly when it holds a bracket expression; every other
\* path comes back unchanged.
C27_DropsBracketedFirst ==
    last.op = "simplify_path" =>
        last.result = IF FirstHasBracket(last.path)
                      THEN AfterFirst(last.path) ELSE Stripped(last.path)

\* C27 amended: the first segment is dropped exactly when it holds a
\* bracket expression and another segment follows it; a path that is one
\* bracketed segment comes back with only the "$." removed.
C27_DropsBracketedFirstOfSeveral ==
    last.op = "simplify_path" =>
        last.result = IF FirstHasBracket(last.path)
                         /\ Len(Split(Stripped(last.path), ".")) > 1
                      THEN AfterFirst(last.path) ELSE Stripped(last.path)

\* "$.i[*].c.v" has been simplified to "c.v".
C27_Witness ==
    /\ last.op = "simplify_path"
    /\ last.path = <<"$", ".", "i", "[", "*", "]", ".", "c", ".", "v">>
    /\ last.result = <<"c", ".", "v">>

-----------------------------------------------------------------------------
(* Properties of the extraction of the entity list *)

\* The list at key E + "s" if there is one, else the list at key E if there
\* is one, else the empty list.
PluralThenSingular(data, entity_type) ==
    IF (entity_type \o "s") \in DOMAIN data /\ data[entity_type \o "s"].k = "list"
    THEN data[entity_type \o "s"].v
    ELSE IF entity_type \in DOMAIN data /\ data[entity_type].k = "list"
    THEN data[entity_type].v
    ELSE <<>>

\* C28: both extractions, the evaluator's and the by-data route's, return
\* the list at key E + "s", otherwise the list at key E, otherwise the
\* empty list.
C28_PluralThenSingular ==
    last.op \in {"extract_entity_list", "_extract_entities"} =>
        last.result = PluralThenSingular(last.data, last.entity_type)

-----------------------------------------------------------------------------
(* Properties of the category-indexed engine *)

\* No two rules of the list have the same name.
NamesOnce(rules) ==
    \A i, j \in 1..Len(rules) :
        Get(rules[i], "name", "") = Get(rules[j], "name", "") => i = j

\* What a stored rule defines: its name and its condition tree (the category
\* key the loader adds is left out of the comparison).
RuleDefinition(r) == [name |-> Get(r, "name", ""), conditions |-> r.conditions]

\* C29: after any sequence of loads, each rule name occurs at most once in
\* the general list of an entity type and at most once in each of its
\* category lists, and every rule of a category list is the rule of the
\* general list (no definition that was overwritten is left in a category).
C29_NoStaleDefinition ==
    \A e \in DOMAIN rules_by_entity :
        /\ NamesOnce(rules_by_entity[e].rules)
        /\ \A c \in DOMAIN rules_by_entity[e].categories :
              /\ NamesOnce(rules_by_entity[e].categories[c])
              /\ \A r \in Range(rules_by_entity[e].categories[c]) :
                    \E g \in Range(rules_by_entity[e].rules) :
                        RuleDefinition(g) = RuleDefinition(r)

-----------------------------------------------------------------------------
(* Properties of an evaluation without entities *)

\* C30: when the document has no list of entities of the entity type, or
\* an empty one, the evaluation returns no RuleResult at all, whatever the
\* rules are (a rule with an invalid tree or an unknown operator included);
\* the by-data route then answers with no results either.
C30_NoEntitiesNoResults ==
    /\ (ev_results.called /\ extract_entity_list(ev_data, "device") = <<>>) =>
          ev_results.results = <<>>
    /\ (/\ last.op = "evaluate_by_data"
        /\ "results" \in DOMAIN last.response
        /\ _extract_entities(last.request.data, last.request.entity_type) = <<>>) =>
          last.response.results = <<>>

\* Two rules, of which one has an unknown operator, have been evaluated on a
\* document without a list of devices.
C30_Witness ==
    /\ ev_results.called
    /\ ev_data = [tasks |-> List(<<>>)]
    /\ Len(ev_rules) = 2
    /\ \E i \in 1..2 : ev_rules[i] = [name |-> "R2",
                                      conditions |-> Leaf(VendorPath, "bogus", Str(<<"C">>))]
    /\ ev_results.results = <<>>

\* The same on a document whose list of devices is empty.
C30_WitnessEmptyList ==
    /\ ev_results.called
    /\ ev_data = [devices |-> List(<<>>)]
    /\ ev_rules # <<>>
    /\ ev_results.results = <<>>

====
